---- MODULE Spec2Model ----
(***************************************************************************)
(* Durable workflow executor of project-velocity: the onboarding graph     *)
(* (app/graph.py, compiled in app/main.py with interrupt_after the         *)
(* consultant), the background executions started by /onboard and          *)
(* /onboard/{id}/resume (app/main.py) and the jobs table with its embedded *)
(* action-item ledger (app/utils/job_store.py).                            *)
(*                                                                         *)
(* One run (thread) is modelled.  Executor 0 is run_onboarding_workflow,   *)
(* executors 1..MaxCalls are resume_workflow tasks.  Every step is one   *)
(* stretch of code between two awaits of the asyncio event loop.           *)
(***************************************************************************)
EXTENDS Integers, Sequences, FiniteSets, TLC

\* ---------------------------------------------------------------- bounds
\* requests a client makes after the submit (resume, append, resolve)
MaxCalls == 1
\* action-item ids the stage handlers can issue
MaxIds == 2

\* ------------------------------------------------------------- constants
tid == "t1"
\* a thread id no Job was created for
OtherTid == "t0"

INPUT_NODE == "input_parser_node"
DOCS_NODE == "doc_intelligence_node"
BANK_NODE == "bank_verifier_node"
WEB_NODE == "web_compliance_node"
FIXER_NODE == "consultant_fixer_node"
FINAL_NODE == "finalizer_node"
END == "__end__"

GatedNodes == {INPUT_NODE, DOCS_NODE, BANK_NODE, WEB_NODE}

NoneStr == "None"

Executors == 0..MaxCalls
ResumeExecutors == 1..MaxCalls

VARIABLES
    jobs,       \* jobs table: thread_id -> row (empty function before create_job)
    checkpoints, \* checkpoint store: thread_id -> latest checkpoint [seq, values, next]
    pc,         \* executor -> position in its task
    loc,        \* executor -> in-memory graph state of its ainvoke: [seq, values, next]
    lastRan,    \* executor -> last stage handler this attempt completed (NoneStr if none)
    err,        \* executor -> message of the exception caught by this attempt (NoneStr if none)
    snap,       \* executor -> action items read by get_job inside append_action_items
    toAdd,      \* executor -> items_to_add computed by resume_workflow
    nextId,     \* next fresh action-item id (uuid4()[:8] in the source)
    cli,        \* caller of the ledger functions: [pc, snap, arg, ids]
    calls,      \* number of requests made after the submit
    clock,      \* datetime.now() as seen by mark_items_resolved
    payload,    \* executor -> ResumePayload of the request that scheduled it
    call        \* the tool call or retried LLM call under way: [phase, ...]

vars == <<jobs, checkpoints, pc, loc, lastRan, err, snap, toAdd, nextId, cli, calls, clock,
          payload, call>>

\* no tool call and no LLM call is under way
NoCall == [phase |-> "idle"]

\* ------------------------------------------------------------ job store
\* JobStatus enum
QUEUED == "QUEUED"
PROCESSING == "PROCESSING"
NEEDS_REVIEW == "NEEDS_REVIEW"
COMPLETED == "COMPLETED"
FAILED == "FAILED"

\* a create_job that inserts the row as already being processed
create_job_Processing(js, t) ==
    [x \in (DOMAIN js) \cup {t} |->
        IF x = t
        THEN [status |-> PROCESSING, stage |-> "INPUT", error_message |-> NoneStr,
              result |-> <<>>, action_items |-> <<>>]
        ELSE js[x]]

\* INSERT of create_job: status QUEUED, stage INPUT, no error, no result, '[]'
create_job(js, t) ==
    [x \in (DOMAIN js) \cup {t} |->
        IF x = t
        THEN [status |-> QUEUED, stage |-> "INPUT", error_message |-> NoneStr,
              result |-> <<>>, action_items |-> <<>>]
        ELSE js[x]]

\* an UPDATE without the WHERE clause
update_job_AllRows(js, t, u) ==
    IF t \notin DOMAIN js THEN js
    ELSE [x \in DOMAIN js |->
            [f \in DOMAIN js[x] |-> IF f \in DOMAIN u THEN u[f] ELSE js[x][f]]]

\* an UPDATE that always binds error_message, NULL when it is not supplied
update_job_ClearsMessage(js, t, u) ==
    IF t \notin DOMAIN js THEN js
    ELSE [js EXCEPT ![t] =
            [f \in DOMAIN js[t] |->
                IF f \in DOMAIN u THEN u[f]
                ELSE IF f = "error_message" THEN NoneStr ELSE js[t][f]]]

\* UPDATE jobs SET <supplied columns> WHERE thread_id = t.  u is the record of
\* the arguments that are not None; a missing row matches nothing.
update_job(js, t, u) ==
    IF t \notin DOMAIN js THEN js
    ELSE [js EXCEPT ![t] =
            [f \in DOMAIN js[t] |-> IF f \in DOMAIN u THEN u[f] ELSE js[t][f]]]

\* get_job(...).get("action_items", []) ; [] when there is no row
get_all_items(js, t) == IF t \in DOMAIN js THEN js[t].action_items ELSE <<>>

\* get_action_items(thread_id, include_resolved): the stored list, or the
\* unresolved items of it, in stored order
get_action_items(js, t, include_resolved) ==
    IF include_resolved THEN get_all_items(js, t)
    ELSE SelectSeq(get_all_items(js, t), LAMBDA i : ~i.resolved)

\* write half of append_action_items: all_items = existing_items + new_items
append_action_items_write(js, t, existing, new) ==
    update_job(js, t, [action_items |-> existing \o new])

\* a resolve that stamps the matching items again
ResolveItems_Restamp(items, ids, now) ==
    [i \in DOMAIN items |->
        IF items[i].id \in ids
        THEN [items[i] EXCEPT !.resolved = TRUE, !.resolved_at = now]
        ELSE items[i]]

\* write half of mark_items_resolved
ResolveItems(items, ids, now) ==
    [i \in DOMAIN items |->
        IF items[i].id \in ids /\ ~items[i].resolved
        THEN [items[i] EXCEPT !.resolved = TRUE, !.resolved_at = now]
        ELSE items[i]]

\* a resolve that stores only the items it was called for
mark_items_resolved_write_KnownOnly(js, t, items, ids, now) ==
    update_job(js, t, [action_items |->
        ResolveItems(SelectSeq(items, LAMBDA i : i.id \in ids), ids, now)])

mark_items_resolved_write(js, t, items, ids, now) ==
    update_job(js, t, [action_items |-> ResolveItems(items, ids, now)])

\* ------------------------------------------------------------ graph state
BLOCKING == "BLOCKING"
WARNING == "WARNING"

NewItem(id, sev) == [id |-> id, severity |-> sev, resolved |-> FALSE, resolved_at |-> 0]

\* ------------------------------------------------------ application data
\* Python values of the application data: a str, None or a dict (a function
\* from keys to values)
Str(s) == [k |-> "str", v |-> s]
NoneVal == [k |-> "none", v |-> ""]
Dict(f) == [k |-> "dict", v |-> f]
IsDict(x) == x.k = "dict"

\* MerchantApplication.model_dump() of the submitted application, by its
\* optional fields: documents_path and business_details.website_url
Application(doc, url) ==
    [documents_path |-> doc,
     business_details |-> Dict([pan |-> Str("pan0"), website_url |-> url]),
     bank_details |-> Dict([ifsc |-> Str("ifsc0")])]

\* the application the modelled run was submitted with
SubmittedApplication == Application(Str("doc0"), NoneVal)

\* the applications a run can have been submitted with
StoredData ==
    {Application(doc, url) : doc \in {NoneVal, Str("doc0")}, url \in {NoneVal, Str("url0")}}

\* a ResumePayload: every field is Optional and defaults to None
ResumePayload(doc, business, bank) ==
    [documents_path |-> doc, business_details |-> business, bank_details |-> bank]

NoPayload == ResumePayload(NoneVal, NoneVal, NoneVal)

PartialBusinessDetails ==
    {Dict([pan |-> pan, website_url |-> url]) :
        pan \in {NoneVal, Str(""), Str("pan1")}, url \in {NoneVal, Str("url1")}}
PartialBankDetails == {Dict([ifsc |-> ifsc]) : ifsc \in {NoneVal, Str("ifsc1")}}

\* the request bodies of POST /onboard/{id}/resume
AllPayloads ==
    {ResumePayload(doc, business, bank) :
        doc \in {NoneVal, Str(""), Str("doc1")},
        business \in {NoneVal} \cup PartialBusinessDetails,
        bank \in {NoneVal} \cup PartialBankDetails}

\* the request bodies the resume calls of the run are drawn from
ResumePayloads ==
    {NoPayload,
     ResumePayload(Str("doc1"), Dict([pan |-> Str("pan1"), website_url |-> NoneVal]), NoneVal)}

\* bool(x) of a payload field: None and "" are falsy, a model instance is truthy
Truthy(x) == x.k = "dict" \/ (x.k = "str" /\ x.v # "")

\* model.model_dump(exclude_none=True)
model_dump_exclude_none(m) ==
    [key \in {j \in DOMAIN m.v : m.v[j] # NoneVal} |-> m.v[key]]

\* the updates dict resume_onboarding builds from the payload
BuildUpdates(p) ==
    [key \in {j \in DOMAIN p : Truthy(p[j])} |->
        IF IsDict(p[key]) THEN Dict(model_dump_exclude_none(p[key])) ELSE p[key]]

\* a merge that replaces the nested dicts instead of descending into them
deep_merge_Shallow(base, updates) ==
    [key \in (DOMAIN base) \cup {j \in DOMAIN updates : updates[j] # NoneVal} |->
        IF key \in DOMAIN updates /\ updates[key] # NoneVal THEN updates[key]
        ELSE base[key]]

\* deep_merge of app/main.py
RECURSIVE deep_merge(_, _)
deep_merge(base, updates) ==
    LET Descend(key) ==
            key \in DOMAIN base /\ IsDict(base[key]) /\ IsDict(updates[key])
        Assigned == {j \in DOMAIN updates : ~Descend(j) /\ updates[j] # NoneVal}
    IN [key \in (DOMAIN base) \cup Assigned |->
            IF key \notin DOMAIN updates THEN base[key]
            ELSE IF Descend(key) THEN Dict(deep_merge(base[key].v, updates[key].v))
            ELSE IF updates[key] # NoneVal THEN updates[key]
            ELSE base[key]]

\* initial_state of start_onboarding
initial_state ==
    [application_data |-> SubmittedApplication,
     is_auth_valid |-> FALSE, is_doc_verified |-> FALSE, is_bank_verified |-> FALSE,
     is_website_compliant |-> FALSE, error_message |-> NoneStr, action_items |-> <<>>,
     risk_score |-> 0, verification_notes |-> <<>>,
     status |-> "IN_PROGRESS", stage |-> "INPUT"]

\* LangGraph channel update: keys returned by the node overwrite, others stay
Merge(values, upd) ==
    [f \in DOMAIN values |-> IF f \in DOMAIN upd THEN upd[f] ELSE values[f]]


\* ------------------------------------------------------- stage handlers
\* sort key of consultant_fixer_node: (0 if BLOCKING else 1, created_at);
\* ids are issued in creation order, so the id stands for created_at
SortKeyLess(a, b) ==
    LET ra == IF a.severity = BLOCKING THEN 0 ELSE 1
        rb == IF b.severity = BLOCKING THEN 0 ELSE 1
    IN ra < rb \/ (ra = rb /\ a.id < b.id)

RECURSIVE InsertSorted(_, _)
InsertSorted(s, x) ==
    IF s = <<>> THEN <<x>>
    ELSE IF SortKeyLess(x, Head(s)) THEN <<x>> \o s
    ELSE <<Head(s)>> \o InsertSorted(Tail(s), x)

RECURSIVE SortItems(_)
SortItems(s) ==
    IF s = <<>> THEN <<>>
    ELSE InsertSorted(SortItems(SubSeq(s, 1, Len(s) - 1)), s[Len(s)])

\* the error_message each gated stage of app/nodes writes when its check fails
FailMessage(node) ==
    CASE node = INPUT_NODE -> "Input validation failed"
      [] node = DOCS_NODE -> "Document file not found"
      [] node = BANK_NODE -> "Incomplete bank details provided."
      [] node = WEB_NODE -> "Website compliance checks failed"

FlagOf(node) ==
    CASE node = INPUT_NODE -> "is_auth_valid"
      [] node = DOCS_NODE -> "is_doc_verified"
      [] node = BANK_NODE -> "is_bank_verified"
      [] node = WEB_NODE -> "is_website_compliant"

\* an input parser that normalises the application on its way
input_parser_node_WritesData(ok, items) ==
    IF ok THEN [is_auth_valid |-> TRUE, action_items |-> <<>>,
                application_data |-> SubmittedApplication]
    ELSE [is_auth_valid |-> FALSE, action_items |-> items,
          error_message |-> FailMessage(INPUT_NODE)]

\* dict returned by input_parser_node (the PAN check is the one that fails)
input_parser_node(ok, items) ==
    IF ok THEN [is_auth_valid |-> TRUE, action_items |-> <<>>,
                verification_notes |-> <<"PAN format validation: PASSED",
                                         "GSTIN format validation: PASSED",
                                         "Basic data validation passed">>]
    ELSE [is_auth_valid |-> FALSE, action_items |-> items,
          verification_notes |-> <<"PAN format validation: FAILED",
                                   "GSTIN format validation: PASSED">>,
          error_message |-> FailMessage(INPUT_NODE)]

\* dict returned by doc_intelligence_node (the failure is the missing file,
\* whose dict has no verification_notes)
doc_intelligence_node(ok, items) ==
    IF ok THEN [is_doc_verified |-> TRUE, action_items |-> <<>>,
                verification_notes |-> <<"Document verified. Keywords found">>]
    ELSE [is_doc_verified |-> FALSE, action_items |-> items,
          error_message |-> FailMessage(DOCS_NODE)]

\* dict returned by bank_verifier_node (the failure is the incomplete details,
\* whose dict has no verification_notes)
bank_verifier_node(ok, items) ==
    IF ok THEN [is_bank_verified |-> TRUE, action_items |-> <<>>,
                verification_notes |-> <<"Penny drop successful", "Name match 100%">>]
    ELSE [is_bank_verified |-> FALSE, action_items |-> items,
          error_message |-> FailMessage(BANK_NODE)]

\* risk_score_increase of web_compliance_node in tenths: 0.5 for every
\* WARNING issue (adverse media, domain age, MX records), nothing for the
\* BLOCKING ones that are not the SSL check (contact information, policy
\* pages), and the vision risk 0.8 when the vision analysis is the only issue
WebRiskIncrease(items) ==
    IF items = <<>> THEN 8
    ELSE 5 * Len(SelectSeq(items, LAMBDA i : i.severity = WARNING))

\* dict returned by web_compliance_node; risk_score in tenths
web_compliance_node(values, ok, items) ==
    IF ok THEN [is_website_compliant |-> TRUE, action_items |-> <<>>,
                verification_notes |-> <<"SSL Check: PASSED",
                                         "All website compliance checks passed">>,
                risk_score |-> values.risk_score]
    ELSE [is_website_compliant |-> FALSE, action_items |-> items,
          verification_notes |-> <<"SSL Check: PASSED">>,
          risk_score |-> IF values.risk_score + WebRiskIncrease(items) < 10
                         THEN values.risk_score + WebRiskIncrease(items) ELSE 10,
          error_message |-> FailMessage(WEB_NODE)]

\* summary of consultant_fixer_node
Summary(blocking_count, warning_count, error) ==
    (IF blocking_count > 0
     THEN <<ToString(blocking_count) \o " blocking issue(s) require attention">>
     ELSE <<>>)
    \o (IF warning_count > 0
        THEN <<ToString(warning_count) \o " warning(s) for review">>
        ELSE <<>>)
    \o (IF error # NoneStr THEN <<"Error: " \o error>> ELSE <<>>)

\* dict returned by consultant_fixer_node; risk_score in tenths
consultant_fixer_node(values) ==
    LET blocking_count ==
            Len(SelectSeq(values.action_items, LAMBDA i : i.severity = BLOCKING))
        warning_count ==
            Len(SelectSeq(values.action_items, LAMBDA i : i.severity = WARNING))
        summary == Summary(blocking_count, warning_count, values.error_message)
        score == 3 + 2 * blocking_count + warning_count
    IN [action_items |-> SortItems(values.action_items),
        verification_notes |->
            IF summary # <<>> THEN summary ELSE <<"Consultant review completed">>,
        status |-> NEEDS_REVIEW,
        risk_score |-> IF score < 10 THEN score ELSE 10]

\* dict returned by finalizer_node
finalizer_node ==
    [verification_notes |-> <<"Agreement generated", "Settlement enabled">>,
     status |-> COMPLETED, action_items |-> <<>>]

NodeUpdate(node, values, ok, items) ==
    CASE node = INPUT_NODE -> input_parser_node(ok, items)
      [] node = DOCS_NODE -> doc_intelligence_node(ok, items)
      [] node = BANK_NODE -> bank_verifier_node(ok, items)
      [] node = WEB_NODE -> web_compliance_node(values, ok, items)
      [] node = FIXER_NODE -> consultant_fixer_node(values)
      [] node = FINAL_NODE -> finalizer_node

\* the action items a failing check can emit, with fresh ids from n on; the
\* web check also fails without any item (vision analysis flags the page)
FailItems(node, n) ==
    IF node = WEB_NODE
    THEN {<<>>, <<NewItem(n, BLOCKING)>>, <<NewItem(n, WARNING)>>,
          <<NewItem(n, WARNING), NewItem(n + 1, BLOCKING)>>}
    ELSE {<<NewItem(n, BLOCKING)>>}

\* web_compliance_node opens the browser outside its try block
CanRaise(node) == node = WEB_NODE
RaiseMessage == "BrowserType.launch: Executable doesn't exist"

\* --------------------------------------------------------------- router
check_auth(values) == IF values.is_auth_valid THEN DOCS_NODE ELSE FIXER_NODE
check_docs(values) == IF values.is_doc_verified THEN BANK_NODE ELSE FIXER_NODE
check_bank(values) == IF values.is_bank_verified THEN WEB_NODE ELSE FIXER_NODE
check_compliance(values) == IF values.is_website_compliant THEN FINAL_NODE ELSE FIXER_NODE

\* edges added by build_graph of app/graph.py (the graph main.py compiles)
NextNode(node, values) ==
    CASE node = INPUT_NODE -> check_auth(values)
      [] node = DOCS_NODE -> BANK_NODE
      [] node = BANK_NODE -> check_bank(values)
      [] node = WEB_NODE -> check_compliance(values)
      [] node = FIXER_NODE -> INPUT_NODE
      [] node = FINAL_NODE -> END

\* a graph compiled without the interrupt
InterruptAfter_NoInterrupt == {}

\* workflow.compile(..., interrupt_after=["consultant_fixer_node"])
InterruptAfter == {FIXER_NODE}

\* ------------------------------------------------------ checkpoint store
NoCheckpoint == [seq |-> 0, values |-> initial_state, next |-> INPUT_NODE]

\* thread id of a second run
OtherRun == "t2"
\* the threads the store holds checkpoints of
Threads == {tid, OtherRun}
\* a store without checkpoints
NoCheckpoints == [t \in Threads |-> NoCheckpoint]

\* the write of a checkpoint under config {"configurable": {"thread_id": t}}
save(cps, t, checkpoint) == [cps EXCEPT ![t] = checkpoint]

\* aget_state(config) of the modelled run: its latest checkpoint
cp == checkpoints[tid]

\* a store that accepts every write
SaveAccepted_Always(store, seqNo) == TRUE

\* save(runID, sequenceNo, state) fails if sequenceNo is already used
SaveAccepted(store, seqNo) == seqNo > store.seq
\* updateApplicationData(runID, partialData): a new checkpoint that carries
\* the update on top of the latest one; the pending stage stays
aupdate_state(store, upd) ==
    [seq |-> store.seq + 1, values |-> Merge(store.values, upd), next |-> store.next]

ConflictMessage == "checkpoint sequence conflict"
NotFoundMessage == "no checkpoint for thread"


\* ------------------------------------------------------------------ Init
Init ==
    /\ jobs = <<>>
    /\ checkpoints = NoCheckpoints
    /\ pc = [e \in Executors |-> "idle"]
    /\ loc = [e \in Executors |-> NoCheckpoint]
    /\ lastRan = [e \in Executors |-> NoneStr]
    /\ err = [e \in Executors |-> NoneStr]
    /\ snap = [e \in Executors |-> <<>>]
    /\ toAdd = [e \in Executors |-> <<>>]
    /\ nextId = 1
    /\ cli = [pc |-> "idle", snap |-> <<>>, arg |-> <<>>, ids |-> {}]
    /\ calls = 0
    /\ clock = 0
    /\ payload = [e \in Executors |-> NoPayload]
    /\ call = NoCall

\* ------------------------------------------------- POST /onboard (submit)
\* start_onboarding: create_job, then add_task(run_onboarding_workflow)
Submit ==
    /\ tid \notin DOMAIN jobs
    /\ jobs' = create_job(jobs, tid)
    /\ pc' = [pc EXCEPT ![0] = "start"]
    /\ UNCHANGED <<checkpoints, loc, lastRan, err, snap, toAdd, nextId, cli, calls, clock, payload, call>>

\* run_onboarding_workflow up to the call of ainvoke(initial_state)
StartInit ==
    /\ pc[0] = "start"
    /\ jobs' = update_job(jobs, tid, [status |-> PROCESSING])
    /\ loc' = [loc EXCEPT ![0] = [seq |-> 0, values |-> initial_state, next |-> INPUT_NODE]]
    /\ pc' = [pc EXCEPT ![0] = "ready"]
    /\ UNCHANGED <<checkpoints, lastRan, err, snap, toAdd, nextId, cli, calls, clock, payload, call>>

\* ------------------------------------------- POST /onboard/{id}/resume
\* a resume_onboarding that schedules the task without merging the payload
resume_onboarding_NoMerge(e, p) ==
    /\ jobs' = update_job(jobs, tid, [status |-> PROCESSING])
    /\ pc' = [pc EXCEPT ![e] = "start"]
    /\ payload' = [payload EXCEPT ![e] = p]
    /\ checkpoints' = checkpoints

\* resume_onboarding with request body p: aget_state, deep_merge and
\* aupdate_state when the payload carries updates, update_job(PROCESSING),
\* add_task(resume_workflow).  The handler tests neither the Job status nor a
\* running execution.  aupdate_state on a thread without a checkpoint raises
\* and the request ends with HTTP 500 before anything is scheduled.
resume_onboarding(e, p) ==
    LET updates == BuildUpdates(p)
        merged_data == deep_merge(cp.values.application_data, updates)
    IN IF updates # <<>> /\ cp.seq = 0
       THEN UNCHANGED <<jobs, checkpoints, pc, payload, call>>
       ELSE /\ checkpoints' =
                  IF updates # <<>>
                  THEN save(checkpoints, tid,
                            aupdate_state(cp, [application_data |-> merged_data]))
                  ELSE checkpoints
            /\ jobs' = update_job(jobs, tid, [status |-> PROCESSING])
            /\ pc' = [pc EXCEPT ![e] = "start"]
            /\ payload' = [payload EXCEPT ![e] = p]

\* POST /onboard/{id}/resume arrives
ResumeRequest(e) ==
    /\ e \in ResumeExecutors
    /\ pc[e] = "idle"
    /\ \A d \in ResumeExecutors : d < e => pc[d] # "idle"
    /\ tid \in DOMAIN jobs
    /\ calls < MaxCalls
    /\ calls' = calls + 1
    /\ \E p \in ResumePayloads : resume_onboarding(e, p)
    /\ UNCHANGED <<loc, lastRan, err, snap, toAdd, nextId, cli, clock, call>>

\* a resume that treats a run whose graph has ended as an error
ResumeLoad_EndedRaises(e) ==
    /\ e \in ResumeExecutors
    /\ pc[e] = "start"
    /\ IF cp.seq = 0 \/ cp.next = END
       THEN /\ err' = [err EXCEPT ![e] = NotFoundMessage]
            /\ pc' = [pc EXCEPT ![e] = "caught"]
            /\ loc' = loc
       ELSE /\ loc' = [loc EXCEPT ![e] = cp]
            /\ pc' = [pc EXCEPT ![e] = "ready"]
            /\ err' = err
    /\ payload' = [payload EXCEPT ![e] = NoPayload]
    /\ UNCHANGED <<jobs, checkpoints, lastRan, snap, toAdd, nextId, cli, calls, clock, call>>

\* resume_workflow: ainvoke(None) loads the latest checkpoint
ResumeLoad(e) ==
    /\ e \in ResumeExecutors
    /\ pc[e] = "start"
    /\ IF cp.seq = 0
       THEN /\ err' = [err EXCEPT ![e] = NotFoundMessage]
            /\ pc' = [pc EXCEPT ![e] = "caught"]
            /\ loc' = loc
       ELSE /\ loc' = [loc EXCEPT ![e] = cp]
            /\ pc' = [pc EXCEPT ![e] = IF cp.next = END THEN "post" ELSE "ready"]
            /\ err' = err
    /\ payload' = [payload EXCEPT ![e] = NoPayload]
    /\ UNCHANGED <<jobs, checkpoints, lastRan, snap, toAdd, nextId, cli, calls, clock, call>>

\* ------------------------------------------------------ graph execution
\* the executor enters the handler of its next stage
HandlerBegin(e) ==
    /\ pc[e] = "ready"
    /\ pc' = [pc EXCEPT ![e] = "exec"]
    /\ UNCHANGED <<jobs, checkpoints, loc, lastRan, err, snap, toAdd, nextId, cli, calls, clock, payload, call>>

\* the handler returns ok/items: merge, route, checkpoint, interrupt test
HandlerReturn(e, ok, items) ==
    LET node == loc[e].next
        newv == Merge(loc[e].values, NodeUpdate(node, loc[e].values, ok, items))
        nxt == NextNode(node, newv)
        seqNo == loc[e].seq + 1
    IN IF SaveAccepted(cp, seqNo)
       THEN /\ checkpoints' =
                  save(checkpoints, tid, [seq |-> seqNo, values |-> newv, next |-> nxt])
            /\ loc' = [loc EXCEPT ![e] = [seq |-> seqNo, values |-> newv, next |-> nxt]]
            /\ lastRan' = [lastRan EXCEPT ![e] = node]
            /\ pc' = [pc EXCEPT ![e] =
                        IF node \in InterruptAfter \/ nxt = END THEN "post" ELSE "ready"]
            /\ err' = err
       ELSE /\ err' = [err EXCEPT ![e] = ConflictMessage]
            /\ pc' = [pc EXCEPT ![e] = "caught"]
            /\ UNCHANGED <<checkpoints, loc, lastRan, payload, call>>

HandlerEnd(e) ==
    /\ pc[e] = "exec"
    /\ LET node == loc[e].next
       IN \/ /\ HandlerReturn(e, TRUE, <<>>)
             /\ nextId' = nextId
          \/ /\ node \in GatedNodes
             /\ \E items \in FailItems(node, nextId) :
                   /\ nextId + Len(items) <= MaxIds + 1
                   /\ HandlerReturn(e, FALSE, items)
                   /\ nextId' = nextId + Len(items)
    /\ UNCHANGED <<jobs, snap, toAdd, cli, calls, clock, payload, call>>

\* the handler raises: the exception leaves ainvoke
HandlerRaise(e) ==
    /\ pc[e] = "exec"
    /\ CanRaise(loc[e].next)
    /\ err' = [err EXCEPT ![e] = RaiseMessage]
    /\ pc' = [pc EXCEPT ![e] = "caught"]
    /\ UNCHANGED <<jobs, checkpoints, loc, lastRan, snap, toAdd, nextId, cli, calls, clock, payload, call>>

\* --------------------------------------- after ainvoke: job bookkeeping
\* the background task returns: its locals (final_state, e) are dropped
TaskEnds(e) ==
    /\ pc' = [pc EXCEPT ![e] = "done"]
    /\ loc' = [loc EXCEPT ![e] = NoCheckpoint]
    /\ lastRan' = [lastRan EXCEPT ![e] = NoneStr]
    /\ err' = [err EXCEPT ![e] = NoneStr]

\* a closing update that looks at the pending stage only
FinishUpdate_IgnoresError(final_state, next, items) ==
    IF next # END
    THEN [status |-> NEEDS_REVIEW, stage |-> final_state.stage,
          result |-> <<final_state>>, action_items |-> items]
    ELSE [status |-> COMPLETED, stage |-> "FINAL",
          result |-> <<final_state>>, action_items |-> items]

\* the update_job call both tasks make from final_state and aget_state().next
FinishUpdate(final_state, next, items) ==
    IF next # END
    THEN [status |-> NEEDS_REVIEW, stage |-> final_state.stage,
          result |-> <<final_state>>, action_items |-> items]
    ELSE IF final_state.error_message # NoneStr
    THEN [status |-> NEEDS_REVIEW, stage |-> final_state.stage,
          error_message |-> final_state.error_message,
          result |-> <<final_state>>, action_items |-> items]
    ELSE [status |-> COMPLETED, stage |-> "FINAL",
          result |-> <<final_state>>, action_items |-> items]

\* run_onboarding_workflow after ainvoke returned
PostInit ==
    /\ pc[0] = "post"
    /\ jobs' = update_job(jobs, tid,
                  FinishUpdate(loc[0].values, cp.next, loc[0].values.action_items))
    /\ TaskEnds(0)
    /\ UNCHANGED <<checkpoints, snap, toAdd, nextId, cli, calls, clock, payload, call>>

\* items_to_add of resume_workflow: new items whose id is not in the ledger
ItemsToAdd(new_items, existing) ==
    SelectSeq(new_items, LAMBDA i : \A k \in DOMAIN existing : existing[k].id # i.id)

\* resume_workflow: read the ledger and compute items_to_add
PostResume(e) ==
    /\ e \in ResumeExecutors
    /\ pc[e] = "post"
    /\ LET add == ItemsToAdd(loc[e].values.action_items, get_all_items(jobs, tid))
       IN /\ toAdd' = [toAdd EXCEPT ![e] = add]
          /\ pc' = [pc EXCEPT ![e] = IF add # <<>> THEN "append_r" ELSE "finish"]
    /\ UNCHANGED <<jobs, checkpoints, loc, lastRan, err, snap, nextId, cli, calls, clock, payload, call>>

\* append_action_items, first half: get_job
AppendRead(e) ==
    /\ e \in ResumeExecutors
    /\ pc[e] = "append_r"
    /\ snap' = [snap EXCEPT ![e] = get_all_items(jobs, tid)]
    /\ pc' = [pc EXCEPT ![e] = "append_w"]
    /\ UNCHANGED <<jobs, checkpoints, loc, lastRan, err, toAdd, nextId, cli, calls, clock, payload, call>>

\* append_action_items, second half: update_job
AppendWrite(e) ==
    /\ e \in ResumeExecutors
    /\ pc[e] = "append_w"
    /\ jobs' = append_action_items_write(jobs, tid, snap[e], toAdd[e])
    /\ pc' = [pc EXCEPT ![e] = "finish"]
    /\ snap' = [snap EXCEPT ![e] = <<>>]
    /\ toAdd' = [toAdd EXCEPT ![e] = <<>>]
    /\ UNCHANGED <<checkpoints, loc, lastRan, err, nextId, cli, calls, clock, payload, call>>

\* resume_workflow: aget_state, final_items and the closing update_job
FinishResume(e) ==
    /\ e \in ResumeExecutors
    /\ pc[e] = "finish"
    /\ jobs' = update_job(jobs, tid,
                  FinishUpdate(loc[e].values, cp.next, get_all_items(jobs, tid)))
    /\ TaskEnds(e)
    /\ UNCHANGED <<checkpoints, snap, toAdd, nextId, cli, calls, clock, payload, call>>

\* an except branch that drops the message
CatchUpdate_NoMessage(message) == [status |-> FAILED]

\* the update_job of the except branch of both tasks
CatchUpdate(message) == [status |-> FAILED, error_message |-> message]

\* an except branch that only logs the exception
Catch_Silent(e) ==
    /\ pc[e] = "caught"
    /\ jobs' = jobs
    /\ TaskEnds(e)
    /\ UNCHANGED <<checkpoints, snap, toAdd, nextId, cli, calls, clock, payload, call>>

\* except Exception as e: update_job(FAILED, error_message=str(e))
Catch(e) ==
    /\ pc[e] = "caught"
    /\ jobs' = update_job(jobs, tid, CatchUpdate(err[e]))
    /\ TaskEnds(e)
    /\ UNCHANGED <<checkpoints, snap, toAdd, nextId, cli, calls, clock, payload, call>>

\* ----------------------------------- direct calls of the ledger functions
\* the callers of the ledger functions make at most one request more than
\* the resumes are allowed
MaxLedgerCalls == MaxCalls + 1

\* append_action_items(thread_id, [item]) by another caller, first half: get_job.
\* The item carries an id that was issued before (a re-submitted item).
ApiAppendRead ==
    /\ cli.pc = "idle"
    /\ calls < MaxLedgerCalls
    /\ tid \in DOMAIN jobs
    /\ \E id \in 1..(nextId - 1), sev \in {BLOCKING, WARNING} :
          cli' = [pc |-> "append_w", snap |-> get_all_items(jobs, tid),
                  arg |-> <<NewItem(id, sev)>>, ids |-> {}]
    /\ calls' = calls + 1
    /\ UNCHANGED <<jobs, checkpoints, pc, loc, lastRan, err, snap, toAdd, nextId, clock, payload, call>>

\* append_action_items by another caller, second half: update_job
ApiAppendWrite ==
    /\ cli.pc = "append_w"
    /\ jobs' = append_action_items_write(jobs, tid, cli.snap, cli.arg)
    /\ cli' = [cli EXCEPT !.pc = "idle", !.snap = <<>>, !.arg = <<>>]
    /\ UNCHANGED <<checkpoints, pc, loc, lastRan, err, snap, toAdd, nextId, calls, clock, payload, call>>

\* mark_items_resolved(t, ids), first half: get_job; returns at once when
\* there is no Job for t.  ids is one id or every id.
ApiResolveRead ==
    /\ cli.pc = "idle"
    /\ calls < MaxLedgerCalls
    /\ calls' = calls + 1
    /\ \E t \in {tid, OtherTid}, ids \in {{i} : i \in 1..MaxIds} \cup {1..MaxIds} :
          cli' = IF t \in DOMAIN jobs
                 THEN [pc |-> "resolve_w", snap |-> get_all_items(jobs, t),
                       arg |-> <<>>, ids |-> ids]
                 ELSE [cli EXCEPT !.ids = {}]
    /\ UNCHANGED <<jobs, checkpoints, pc, loc, lastRan, err, snap, toAdd, nextId, clock, payload, call>>

\* mark_items_resolved, second half: now = datetime.now(); update_job
ApiResolveWrite ==
    /\ cli.pc = "resolve_w"
    /\ clock' = clock + 1
    /\ jobs' = mark_items_resolved_write(jobs, tid, cli.snap, cli.ids, clock + 1)
    /\ cli' = [cli EXCEPT !.pc = "idle", !.snap = <<>>]
    /\ UNCHANGED <<checkpoints, pc, loc, lastRan, err, snap, toAdd, nextId, calls, payload, call>>

\* ------------------------------------------------------------------ Next
Next ==
    \/ Submit
    \/ StartInit
    \/ \E e \in ResumeExecutors : ResumeRequest(e)
    \/ \E e \in ResumeExecutors : ResumeLoad(e)
    \/ \E e \in Executors : HandlerBegin(e)
    \/ \E e \in Executors : HandlerEnd(e)
    \/ \E e \in Executors : HandlerRaise(e)
    \/ PostInit
    \/ \E e \in ResumeExecutors : PostResume(e)
    \/ \E e \in ResumeExecutors : AppendRead(e)
    \/ \E e \in ResumeExecutors : AppendWrite(e)
    \/ \E e \in ResumeExecutors : FinishResume(e)
    \/ \E e \in Executors : Catch(e)

Spec == Init /\ [][Next]_vars

\* ------------------------------------------- fair background scheduling
\* the steps of the background task of executor e: the event loop runs a
\* scheduled task to its end, and every stage handler returns or raises
TaskStep(e) ==
    \/ (e = 0 /\ StartInit)
    \/ ResumeLoad(e)
    \/ HandlerBegin(e)
    \/ HandlerEnd(e)
    \/ HandlerRaise(e)
    \/ (e = 0 /\ PostInit)
    \/ PostResume(e)
    \/ AppendRead(e)
    \/ AppendWrite(e)
    \/ FinishResume(e)
    \/ Catch(e)

\* Which stage runs next and which update closes a task depend on whether a
\* check passes and on whether it emits items, never on the severity of an
\* item or on the fields of a correction: the fair specification takes every
\* item as BLOCKING and every resume without corrections.
Plain ==
    \A e \in Executors :
        /\ payload[e] = NoPayload
        /\ \A k \in DOMAIN loc[e].values.action_items :
               loc[e].values.action_items[k].severity = BLOCKING

FairNext == Next /\ Plain'

FairSpec == Init /\ [][FairNext]_vars /\ \A e \in Executors : WF_vars(TaskStep(e) /\ Plain')

\* ------------------------------------------- the run paused after FIXER
\* state of the run after a first execution that failed at gate (INPUT or
\* COMPLIANCE) with the given items, ran FIXER and was interrupted
PausedValues(gate, items) ==
    LET v1 == Merge(initial_state, input_parser_node(gate # INPUT_NODE, items))
        v2 == Merge(v1, doc_intelligence_node(TRUE, <<>>))
        v3 == Merge(v2, bank_verifier_node(TRUE, <<>>))
        v4 == Merge(v3, web_compliance_node(v3, FALSE, items))
        failed == IF gate = INPUT_NODE THEN v1 ELSE v4
    IN Merge(failed, consultant_fixer_node(failed))

PausedSeq(gate) == IF gate = INPUT_NODE THEN 2 ELSE 5

\* the Job, the checkpoint and the tasks once run_onboarding_workflow has
\* returned from that execution; b is the application the run was submitted with
PausedRun(gate, items, b) ==
    LET values == [PausedValues(gate, items) EXCEPT !.application_data = b]
        queued == create_job(<<>>, tid)
        processing == update_job(queued, tid, [status |-> PROCESSING])
    IN /\ jobs = update_job(processing, tid,
                     FinishUpdate(values, INPUT_NODE, values.action_items))
       /\ checkpoints = save(NoCheckpoints, tid,
                             [seq |-> PausedSeq(gate), values |-> values,
                              next |-> INPUT_NODE])
       /\ pc = [e \in Executors |-> IF e = 0 THEN "done" ELSE "idle"]
       /\ loc = [e \in Executors |-> NoCheckpoint]
       /\ lastRan = [e \in Executors |-> NoneStr]
       /\ err = [e \in Executors |-> NoneStr]
       /\ snap = [e \in Executors |-> <<>>]
       /\ toAdd = [e \in Executors |-> <<>>]
       /\ nextId = 2
       /\ cli = [pc |-> "idle", snap |-> <<>>, arg |-> <<>>, ids |-> {}]
       /\ calls = 0
       /\ clock = 0
       /\ payload = [e \in Executors |-> NoPayload]

\* the paused run with no tool call under way
Paused(gate, items, b) == PausedRun(gate, items, b) /\ call = NoCall

\* what the first execution can have left behind
PausedCauses == {<<INPUT_NODE, <<NewItem(1, BLOCKING)>>>>,
                 <<WEB_NODE, <<NewItem(1, WARNING)>>>>}

PausedInit == \E c \in PausedCauses : Paused(c[1], c[2], SubmittedApplication)

\* resumes of the paused run and direct calls of the ledger functions
PausedNext ==
    \/ \E e \in ResumeExecutors : ResumeRequest(e)
    \/ \E e \in ResumeExecutors : ResumeLoad(e)
    \/ \E e \in ResumeExecutors : HandlerBegin(e)
    \/ \E e \in ResumeExecutors : HandlerEnd(e)
    \/ \E e \in ResumeExecutors : HandlerRaise(e)
    \/ \E e \in ResumeExecutors : PostResume(e)
    \/ \E e \in ResumeExecutors : AppendRead(e)
    \/ \E e \in ResumeExecutors : AppendWrite(e)
    \/ \E e \in ResumeExecutors : FinishResume(e)
    \/ \E e \in ResumeExecutors : Catch(e)
    \/ ApiAppendRead
    \/ ApiAppendWrite
    \/ ApiResolveRead
    \/ ApiResolveWrite

PausedSpec == PausedInit /\ [][PausedNext]_vars

\* --------------------------------------- the resume merge on stored data
MergeInit ==
    \E c \in PausedCauses, b \in StoredData : Paused(c[1], c[2], b)

\* one resume request with any request body
ResumeRequestAny ==
    /\ pc[1] = "idle"
    /\ calls = 0
    /\ calls' = calls + 1
    /\ \E p \in AllPayloads : resume_onboarding(1, p)
    /\ UNCHANGED <<loc, lastRan, err, snap, toAdd, nextId, cli, clock, call>>

MergeNext == ResumeRequestAny

MergeSpec == MergeInit /\ [][MergeNext]_vars

\* ------------------------------- two resumes with deterministic checks
\* the field of the application data each gated handler of app/nodes checks
CheckedField(node, data) ==
    CASE node = INPUT_NODE -> data.business_details.v.pan
      [] node = DOCS_NODE -> data.documents_path
      [] node = BANK_NODE -> data.bank_details.v.ifsc
      [] node = WEB_NODE -> data.business_details.v.website_url

\* deterministic tools: what the check of a stage does is a function of the
\* value it checks.  A missing document path or website URL fails its check;
\* only the website check raises.
Verdicts ==
    {v \in [{<<INPUT_NODE, Str("pan0")>>, <<INPUT_NODE, Str("pan1")>>,
             <<DOCS_NODE, NoneVal>>, <<DOCS_NODE, Str("doc0")>>,
             <<DOCS_NODE, Str("doc1")>>, <<BANK_NODE, Str("ifsc0")>>,
             <<WEB_NODE, NoneVal>>, <<WEB_NODE, Str("url0")>>,
             <<WEB_NODE, Str("url1")>>} -> {"pass", "fail", "raises"}] :
        /\ \A k \in DOMAIN v : v[k] = "raises" => CanRaise(k[1]) /\ k[2] # NoneVal
        /\ v[<<DOCS_NODE, NoneVal>>] = "fail"
        /\ v[<<WEB_NODE, NoneVal>>] = "fail"}

\* the corrections a merchant sends twice
TwiceCorrections ==
    ResumePayloads
    \cup {ResumePayload(NoneVal, Dict([pan |-> NoneVal, website_url |-> Str("url1")]),
                        NoneVal)}

\* the run is paused after a first execution whose checks did what the
\* verdict says (the stages before the failed one passed); call holds the
\* verdict, the corrections of both requests, the number of resume requests
\* made and the Job status the first resume left
TwiceInit ==
    \E c \in PausedCauses, b \in StoredData, v \in Verdicts, p \in TwiceCorrections :
       /\ v[<<c[1], CheckedField(c[1], b)>>] = "fail"
       /\ c[1] = WEB_NODE =>
             /\ CheckedField(WEB_NODE, b) # NoneVal
             /\ \A node \in GatedNodes \ {WEB_NODE} :
                   v[<<node, CheckedField(node, b)>>] = "pass"
       /\ PausedRun(c[1], c[2], b)
       /\ call = [phase |-> "fixed", verdict |-> v, corrections |-> p, resumes |-> 0,
                  first |-> NoneStr]

\* POST /onboard/{id}/resume with the corrections, while no task is in flight
ResumeAgain ==
    /\ call.phase = "fixed"
    /\ call.resumes < 2
    /\ pc[1] \in {"idle", "done"}
    /\ resume_onboarding(1, call.corrections)
    /\ call' = [call EXCEPT !.resumes = call.resumes + 1,
                            !.first = IF call.resumes = 1 THEN jobs[tid].status
                                      ELSE call.first]
    /\ UNCHANGED <<loc, lastRan, err, snap, toAdd, nextId, cli, calls, clock>>

\* the handler of the pending stage does what the verdict says of the
\* application data; a failing check emits one item with a fresh id
FixedHandlerEnd(e) ==
    /\ pc[e] = "exec"
    /\ call.phase = "fixed"
    /\ LET node == loc[e].next
           field == CheckedField(node, loc[e].values.application_data)
           verdict == IF node \in GatedNodes THEN call.verdict[<<node, field>>]
                      ELSE "pass"
           severity == IF node = WEB_NODE /\ field # NoneVal THEN WARNING ELSE BLOCKING
       IN CASE verdict = "pass" ->
                 /\ HandlerReturn(e, TRUE, <<>>)
                 /\ UNCHANGED <<jobs, snap, toAdd, nextId, cli, calls, clock, payload, call>>
            [] verdict = "fail" ->
                 /\ HandlerReturn(e, FALSE, <<NewItem(nextId, severity)>>)
                 /\ nextId' = nextId + 1
                 /\ UNCHANGED <<jobs, snap, toAdd, cli, calls, clock, payload, call>>
            [] verdict = "raises" -> HandlerRaise(e)

TwiceNext ==
    \/ ResumeAgain
    \/ ResumeLoad(1)
    \/ HandlerBegin(1)
    \/ FixedHandlerEnd(1)
    \/ PostResume(1)
    \/ AppendRead(1)
    \/ AppendWrite(1)
    \/ FinishResume(1)
    \/ Catch(1)

TwiceSpec == TwiceInit /\ [][TwiceNext]_vars

\* ------------------------------------------------ two runs in one store
\* a second run was submitted before, failed INPUT with one item, ran FIXER
\* and is paused; the run tid is not submitted yet.  Item ids are
\* uuid4()[:8], so an id that run issued can be issued again
RunsInit ==
    LET values == PausedValues(INPUT_NODE, <<NewItem(1, BLOCKING)>>)
        queued == create_job(<<>>, OtherRun)
        processing == update_job(queued, OtherRun, [status |-> PROCESSING])
    IN /\ jobs = update_job(processing, OtherRun,
                     FinishUpdate(values, INPUT_NODE, values.action_items))
       /\ checkpoints = save(NoCheckpoints, OtherRun,
                             [seq |-> PausedSeq(INPUT_NODE), values |-> values,
                              next |-> INPUT_NODE])
       /\ pc = [e \in Executors |-> "idle"]
       /\ loc = [e \in Executors |-> NoCheckpoint]
       /\ lastRan = [e \in Executors |-> NoneStr]
       /\ err = [e \in Executors |-> NoneStr]
       /\ snap = [e \in Executors |-> <<>>]
       /\ toAdd = [e \in Executors |-> <<>>]
       /\ nextId = 1
       /\ cli = [pc |-> "idle", snap |-> <<>>, arg |-> <<>>, ids |-> {}]
       /\ calls = 0
       /\ clock = 0
       /\ payload = [e \in Executors |-> NoPayload]
       /\ call = NoCall

\* no background task of the run tid is scheduled or running
Quiet == \A e \in Executors : pc[e] \in {"idle", "done"}

\* every operation on the run tid: submit, execution, resumes (whose tasks
\* call append_action_items) and mark_items_resolved.  What an operation
\* writes for another run does not depend on how the operations of tid
\* interleave, so mark_items_resolved is called while no task of tid is in
\* flight.
RunsNext ==
    \/ Next
    \/ (Quiet /\ ApiResolveRead)
    \/ ApiResolveWrite

RunsSpec == RunsInit /\ [][RunsNext]_vars

\* ------------------------------------------- tools of the node framework
\* names registered with tool_registry by app/core/tools
RegisteredTools ==
    {"validate_pan", "validate_gstin", "validate_ifsc", "validate_aadhaar",
     "extract_document_text", "validate_document_content", "extract_pan_from_document",
     "penny_drop_verify", "lookup_ifsc", "validate_account_number",
     "check_ssl", "fetch_webpage", "fetch_webpage_sync", "check_page_policies",
     "take_screenshot"}
\* a name no module registers
UnknownTool == "send_sms"
ToolNames == RegisteredTools \cup {UnknownTool}

\* NodeConfig.available_tools of the node classes
available_tools(node) ==
    CASE node = INPUT_NODE -> {"validate_pan", "validate_gstin"}
      [] node = DOCS_NODE -> {"extract_document_text", "validate_document_content",
                              "extract_pan_from_document"}
      [] node = BANK_NODE -> {"validate_ifsc", "validate_account_number",
                              "penny_drop_verify", "lookup_ifsc"}
      [] node = WEB_NODE -> {"check_ssl", "fetch_webpage_sync", "check_page_policies",
                             "take_screenshot"}
      [] OTHER -> {}

\* what a tool implementation does when it is invoked: it returns data that
\* pass the check, data that do not, or it raises (a timeout)
Behaviours == {"valid", "invalid", "raises"}
TimeoutMessage == "timed out"

ToolResult(tool_name, success, data, error) ==
    [tool_name |-> tool_name, success |-> success, data |-> data, error |-> error]

\* outcome of a call: the ToolResult returned (or an exception leaving the
\* call) and whether the tool implementation was invoked
Returned(result, invoked) == [raised |-> FALSE, result |-> result, invoked |-> invoked]
Propagated(message) ==
    [raised |-> TRUE, result |-> ToolResult(NoneStr, FALSE, NoneStr, message),
     invoked |-> TRUE]

\* a registry call without the except clause
ToolRegistry_call_NoExcept(name, use_mock, behaviour) ==
    IF name \notin RegisteredTools
    THEN Returned(ToolResult(name, FALSE, NoneStr, "Tool not found in registry"), FALSE)
    ELSE IF use_mock
    THEN Returned(ToolResult(name, TRUE, "valid", NoneStr), FALSE)
    ELSE IF behaviour = "raises"
    THEN Propagated(TimeoutMessage)
    ELSE Returned(ToolResult(name, TRUE, behaviour, NoneStr), TRUE)

\* ToolRegistry.call(name, inputs, use_mock); every registered tool has an
\* implementation and a mock_output, none has a mock implementation
ToolRegistry_call(name, use_mock, behaviour) ==
    IF name \notin RegisteredTools
    THEN Returned(ToolResult(name, FALSE, NoneStr, "Tool not found in registry"), FALSE)
    ELSE IF use_mock
    THEN Returned(ToolResult(name, TRUE, "valid", NoneStr), FALSE)
    ELSE IF behaviour = "raises"
    THEN Returned(ToolResult(name, FALSE, NoneStr, TimeoutMessage), TRUE)
    ELSE Returned(ToolResult(name, TRUE, behaviour, NoneStr), TRUE)

\* BaseNode.call_tool(tool_name, inputs) of the node class of stage node;
\* use_mock is sim.should_skip(simulation_key)
call_tool(node, tool_name, use_mock, behaviour) ==
    IF tool_name \notin available_tools(node)
    THEN Returned(ToolResult(tool_name, FALSE, NoneStr, "Tool not in available_tools"),
                  FALSE)
    ELSE ToolRegistry_call(tool_name, use_mock, behaviour)

\* "result.success and result.data" of the process methods
HasData(result) == result.success /\ result.data # NoneStr

\* create_action_item of the node classes
V2Item(severity, field) == [severity |-> severity, field_to_update |-> field]

\* NodeOutput of a process method: the outcome flag of its state_updates, its
\* action_items and the ToolResults of the calls it made (_tool_results)
NodeOutput(flag, items, results) ==
    [flag |-> flag, action_items |-> items, tool_results |-> results, raised |-> FALSE]

\* the tools a process method calls
UsedTools(node) ==
    CASE node = INPUT_NODE -> {"validate_pan", "validate_gstin"}
      [] node = DOCS_NODE -> {"extract_document_text", "validate_document_content"}
      [] node = BANK_NODE -> {"validate_ifsc", "validate_account_number",
                              "penny_drop_verify"}
      [] node = WEB_NODE -> {"check_ssl", "fetch_webpage_sync", "check_page_policies"}

\* InputParserNode.process with a PAN and a GSTIN in the application
InputParserNode_process(use_mock, b) ==
    LET pan_result == call_tool(INPUT_NODE, "validate_pan", use_mock,
                                b["validate_pan"]).result
        gstin_result == call_tool(INPUT_NODE, "validate_gstin", use_mock,
                                  b["validate_gstin"]).result
        action_items ==
            (IF HasData(pan_result) /\ pan_result.data # "valid"
             THEN <<V2Item(BLOCKING, "business_details.pan")>> ELSE <<>>)
            \o (IF HasData(gstin_result) /\ gstin_result.data # "valid"
                THEN <<V2Item(BLOCKING, "business_details.gstin")>> ELSE <<>>)
    IN NodeOutput(action_items = <<>>, action_items, <<pan_result, gstin_result>>)

\* DocIntelligenceNode.process with an existing document file; extracted data
\* that do not pass have a confidence below 0.5
DocIntelligenceNode_process(use_mock, b) ==
    LET extract_result == call_tool(DOCS_NODE, "extract_document_text", use_mock,
                                    b["extract_document_text"]).result
        validate_result == call_tool(DOCS_NODE, "validate_document_content", use_mock,
                                     b["validate_document_content"]).result
        item == <<V2Item(BLOCKING, "documents_path")>>
    IN IF ~HasData(extract_result)
       THEN NodeOutput(FALSE, item, <<extract_result>>)
       ELSE IF /\ HasData(validate_result)
               /\ validate_result.data = "valid"
               /\ extract_result.data = "valid"
       THEN NodeOutput(TRUE, <<>>, <<extract_result, validate_result>>)
       ELSE NodeOutput(FALSE, item, <<extract_result, validate_result>>)

\* BankVerifierNode.process with an account number and an IFSC code
BankVerifierNode_process(use_mock, b) ==
    LET ifsc_result == call_tool(BANK_NODE, "validate_ifsc", use_mock,
                                 b["validate_ifsc"]).result
        acct_result == call_tool(BANK_NODE, "validate_account_number", use_mock,
                                 b["validate_account_number"]).result
        penny_result == call_tool(BANK_NODE, "penny_drop_verify", use_mock,
                                  b["penny_drop_verify"]).result
        action_items ==
            (IF HasData(ifsc_result) /\ ifsc_result.data # "valid"
             THEN <<V2Item(BLOCKING, "bank_details.ifsc")>> ELSE <<>>)
            \o (IF HasData(acct_result) /\ acct_result.data # "valid"
                THEN <<V2Item(BLOCKING, "bank_details.account_number")>> ELSE <<>>)
    IN IF action_items # <<>>
       THEN NodeOutput(FALSE, action_items, <<ifsc_result, acct_result>>)
       ELSE IF HasData(penny_result) /\ penny_result.data = "valid"
       THEN NodeOutput(TRUE, <<>>, <<ifsc_result, acct_result, penny_result>>)
       ELSE NodeOutput(FALSE,
                       IF HasData(penny_result)
                       THEN <<V2Item(BLOCKING, "bank_details")>> ELSE <<>>,
                       <<ifsc_result, acct_result, penny_result>>)

\* WebComplianceNode.process with a website URL
WebComplianceNode_process(use_mock, b) ==
    LET ssl_result == call_tool(WEB_NODE, "check_ssl", use_mock, b["check_ssl"]).result
        fetch_result == call_tool(WEB_NODE, "fetch_webpage_sync", use_mock,
                                  b["fetch_webpage_sync"]).result
        policy_result == call_tool(WEB_NODE, "check_page_policies", use_mock,
                                   b["check_page_policies"]).result
        action_items ==
            (IF HasData(ssl_result) /\ ssl_result.data # "valid"
             THEN <<V2Item(BLOCKING, "business_details.website_url")>> ELSE <<>>)
            \o (IF HasData(fetch_result)
                THEN (IF HasData(policy_result) /\ policy_result.data # "valid"
                      THEN <<V2Item(BLOCKING, NoneStr)>> ELSE <<>>)
                ELSE <<V2Item(WARNING, "business_details.website_url")>>)
        blocking_count == Len(SelectSeq(action_items, LAMBDA i : i.severity = BLOCKING))
    IN NodeOutput(blocking_count = 0, action_items,
                  IF HasData(fetch_result)
                  THEN <<ssl_result, fetch_result, policy_result>>
                  ELSE <<ssl_result, fetch_result>>)

process(node, use_mock, b) ==
    CASE node = INPUT_NODE -> InputParserNode_process(use_mock, b)
      [] node = DOCS_NODE -> DocIntelligenceNode_process(use_mock, b)
      [] node = BANK_NODE -> BankVerifierNode_process(use_mock, b)
      [] node = WEB_NODE -> WebComplianceNode_process(use_mock, b)

\* a node calls a tool by name
CallTool ==
    /\ call.phase = "idle"
    /\ \E node \in GatedNodes \cup {FIXER_NODE}, tool_name \in ToolNames,
          use_mock \in BOOLEAN, behaviour \in Behaviours :
          call' = [phase |-> "tool", node |-> node, tool_name |-> tool_name,
                   use_mock |-> use_mock, behaviour |-> behaviour,
                   out |-> call_tool(node, tool_name, use_mock, behaviour)]
    /\ UNCHANGED <<jobs, checkpoints, pc, loc, lastRan, err, snap, toAdd, nextId, cli, calls,
                   clock, payload>>

\* BaseNode.__call__ of a gated stage: process() with the tools behaving as b
RunStage ==
    /\ call.phase = "idle"
    /\ \E node \in GatedNodes, use_mock \in BOOLEAN :
          \E b \in [UsedTools(node) -> Behaviours] :
             call' = [phase |-> "stage", node |-> node, use_mock |-> use_mock,
                      behaviours |-> b, out |-> process(node, use_mock, b)]
    /\ UNCHANGED <<jobs, checkpoints, pc, loc, lastRan, err, snap, toAdd, nextId, cli, calls,
                   clock, payload>>

\* the caller has taken the result
ToolDone ==
    /\ call.phase \in {"tool", "stage"}
    /\ call' = NoCall
    /\ UNCHANGED <<jobs, checkpoints, pc, loc, lastRan, err, snap, toAdd, nextId, cli, calls,
                   clock, payload>>

ToolNext == CallTool \/ RunStage \/ ToolDone

ToolSpec == Init /\ [][ToolNext]_vars

\* ------------------------------------- retried LLM call of the consultant
\* largest max_retries a RetryingLLM is built with
MaxRetries == 2

\* base_delay and max_delay of RetryingLLM in milliseconds
BaseDelayMs == 2000
MaxDelayMs == 60000
\* 0.75 + random.random() * 0.5 in percent
JitterPercent == {75, 100, 124}

\* str(e) of the exceptions an LLM call raises
RateLimitMessages == {"429 Too Many Requests", "Resource exhausted: quota"}
OtherMessages == {"Connection refused"}
Outcomes == {"ok"} \cup RateLimitMessages \cup OtherMessages

\* is_rate_limit_error: the lowercased message contains one of the patterns
\* ("429", "quota", "rate limit", ...)
is_rate_limit_error(message) == message \in RateLimitMessages

RECURSIVE Pow2(_)
Pow2(n) == IF n = 0 THEN 1 ELSE 2 * Pow2(n - 1)

\* RetryingLLM._calculate_delay(attempt) with the jitter drawn as percent
calculate_delay(attempt, percent) ==
    LET delay == IF BaseDelayMs * Pow2(attempt) < MaxDelayMs
                 THEN BaseDelayMs * Pow2(attempt) ELSE MaxDelayMs
    IN (delay * percent) \div 100

\* a loop that sleeps and retries after every exception
AfterAttempt_RetriesAll(attempt, max_retries, outcome) ==
    IF outcome = "ok" THEN "returned"
    ELSE IF attempt = max_retries THEN "raised"
    ELSE "sleep"

\* body of "for attempt in range(max_retries + 1)" after the call came back
\* with outcome: return, re-raise, or sleep and go round again
AfterAttempt(attempt, max_retries, outcome) ==
    IF outcome = "ok" THEN "returned"
    ELSE IF ~is_rate_limit_error(outcome) THEN "raised"
    ELSE IF attempt = max_retries THEN "raised"
    ELSE "sleep"

\* enrich_action_items_with_llm: the whole body runs under try/except
\* Exception, so whatever the LLM call did the items come back and nothing
\* is raised (the enriched suggestions are not part of the modelled item)
enrich_action_items_with_llm(action_items, c) ==
    [raised |-> FALSE, action_items |-> action_items]

\* the first execution has failed INPUT and is inside consultant_fixer_node
\* (ENVIRONMENT production, one action item)
AtFixer(items) ==
    LET values == Merge(initial_state, input_parser_node(FALSE, items))
        store == [seq |-> 1, values |-> values, next |-> FIXER_NODE]
    IN /\ jobs = update_job(create_job(<<>>, tid), tid, [status |-> PROCESSING])
       /\ checkpoints = save(NoCheckpoints, tid, store)
       /\ pc = [e \in Executors |-> IF e = 0 THEN "exec" ELSE "idle"]
       /\ loc = [e \in Executors |-> IF e = 0 THEN store ELSE NoCheckpoint]
       /\ lastRan = [e \in Executors |-> IF e = 0 THEN INPUT_NODE ELSE NoneStr]
       /\ err = [e \in Executors |-> NoneStr]
       /\ snap = [e \in Executors |-> <<>>]
       /\ toAdd = [e \in Executors |-> <<>>]
       /\ nextId = 2
       /\ cli = [pc |-> "idle", snap |-> <<>>, arg |-> <<>>, ids |-> {}]
       /\ calls = 0
       /\ clock = 0
       /\ payload = [e \in Executors |-> NoPayload]
       /\ call = NoCall

RetryInit == AtFixer(<<NewItem(1, BLOCKING)>>)

\* RetryingLLM.invoke is entered: last_exception = None, first attempt
RetryStart ==
    /\ pc[0] = "exec"
    /\ loc[0].next = FIXER_NODE
    /\ call.phase = "idle"
    /\ \E max_retries \in 0..MaxRetries :
          call' = [phase |-> "attempt", max_retries |-> max_retries, attempt |-> 0,
                   attempts |-> 0, outcome |-> NoneStr, last_exception |-> NoneStr,
                   delay |-> 0]
    /\ UNCHANGED <<jobs, checkpoints, pc, loc, lastRan, err, snap, toAdd, nextId, cli, calls,
                   clock, payload>>

\* self._llm.invoke(...) returns or raises, and the loop body decides
RetryAttempt ==
    /\ call.phase = "attempt"
    /\ \E outcome \in Outcomes, percent \in JitterPercent :
          LET phase == AfterAttempt(call.attempt, call.max_retries, outcome)
          IN call' = [call EXCEPT
                        !.phase = phase,
                        !.attempts = call.attempts + 1,
                        !.outcome = outcome,
                        !.last_exception =
                            IF outcome = "ok" THEN call.last_exception ELSE outcome,
                        !.delay = IF phase = "sleep"
                                  THEN calculate_delay(call.attempt, percent)
                                  ELSE call.delay]
    /\ UNCHANGED <<jobs, checkpoints, pc, loc, lastRan, err, snap, toAdd, nextId, cli, calls,
                   clock, payload>>

\* time.sleep(delay) is over: next value of the loop variable
RetrySleep ==
    /\ call.phase = "sleep"
    /\ call' = [call EXCEPT !.phase = "attempt", !.attempt = call.attempt + 1]
    /\ UNCHANGED <<jobs, checkpoints, pc, loc, lastRan, err, snap, toAdd, nextId, cli, calls,
                   clock, payload>>

\* the LLM call is over: enrich_action_items_with_llm returns and
\* consultant_fixer_node returns its dict
FixerReturns ==
    /\ pc[0] = "exec"
    /\ loc[0].next = FIXER_NODE
    /\ call.phase \in {"returned", "raised"}
    /\ ~enrich_action_items_with_llm(loc[0].values.action_items, call).raised
    /\ HandlerReturn(0, TRUE, <<>>)
    /\ nextId' = nextId
    /\ UNCHANGED <<jobs, snap, toAdd, cli, calls, clock, payload, call>>

RetryNext ==
    \/ RetryStart
    \/ RetryAttempt
    \/ RetrySleep
    \/ FixerReturns
    \/ PostInit

\* the LLM call returns or raises and a sleep ends
RetrySpec ==
    RetryInit /\ [][RetryNext]_vars /\ WF_vars(RetryAttempt) /\ WF_vars(RetrySleep)


\* ================================================================ claims
JobExists == tid \in DOMAIN jobs
Status == IF JobExists THEN jobs[tid].status ELSE NoneStr
Ledger == get_all_items(jobs, tid)
LedgerIds(items) == {items[i].id : i \in DOMAIN items}
AllFlags(values) ==
    /\ values.is_auth_valid
    /\ values.is_doc_verified
    /\ values.is_bank_verified
    /\ values.is_website_compliant
\* the attempt of executor e makes its closing update_job in this step
Finishing(e) == pc[e] \in {"post", "finish"} /\ pc'[e] = "done"
\* no execution attempt other than those in S is in flight
OthersQuiet(S) == \A d \in Executors \ S : pc[d] \in {"idle", "done"}

\* C1: whenever a gated stage (INPUT, DOCS, BANK, COMPLIANCE) has just run and
\* left its outcome flag false, the stage selected next is FIXER.
C1_FalseGateRoutesToFixer ==
    \A e \in Executors :
        (lastRan[e] \in GatedNodes /\ ~loc[e].values[FlagOf(lastRan[e])])
            => loc[e].next = FIXER_NODE

\* C2: the finalizer executes only in a state whose four outcome flags are
\* all true, on a first execution and after a resume alike.
C2_FinalOnlyWithAllFlags ==
    \A e \in Executors :
        (pc[e] = "exec" /\ loc[e].next = FINAL_NODE) => AllFlags(loc[e].values)

\* C3: once an execution attempt has completed FIXER it runs no further stage
\* handler (INPUT is not re-entered by that attempt), and the update_job that
\* closes the attempt sets the Job status to NEEDS_REVIEW.
C3_InterruptAfterFixer ==
    [][\A e \in Executors :
          /\ lastRan'[e] = FIXER_NODE => pc'[e] \notin {"ready", "exec"}
          /\ (lastRan[e] = FIXER_NODE /\ Finishing(e))
                => jobs'[tid].status = NEEDS_REVIEW]_vars

C3_Witness ==
    /\ pc[0] = "done"
    /\ \A e \in ResumeExecutors : pc[e] = "idle"
    /\ cp.next = INPUT_NODE
    /\ cp.values.status = NEEDS_REVIEW
    /\ Status = NEEDS_REVIEW

\* C4: when an attempt finishes without raising (no other attempt being in
\* flight), the Job is COMPLETED exactly if the graph ended at the terminal
\* stage (nothing pending) and NEEDS_REVIEW exactly if the run is paused at the
\* interrupt after FIXER; so a resumed run whose four gates pass is COMPLETED.
C4_StatusMatchesGraphEnd ==
    [][\A e \in Executors :
          (Finishing(e) /\ OthersQuiet({e})) =>
              /\ (jobs'[tid].status = COMPLETED) <=> (cp.next = END)
              /\ (jobs'[tid].status = NEEDS_REVIEW)
                    <=> (cp.next = INPUT_NODE /\ cp.values.status = NEEDS_REVIEW)]_vars

\* C5: every change of the Job status is QUEUED->PROCESSING,
\* PROCESSING->NEEDS_REVIEW, PROCESSING->COMPLETED, PROCESSING->FAILED or
\* NEEDS_REVIEW->PROCESSING.
AllowedTransitions ==
    {<<QUEUED, PROCESSING>>, <<PROCESSING, NEEDS_REVIEW>>, <<PROCESSING, COMPLETED>>,
     <<PROCESSING, FAILED>>, <<NEEDS_REVIEW, PROCESSING>>}

C5_StatusTransitions ==
    [][(JobExists /\ jobs'[tid].status # jobs[tid].status)
          => <<jobs[tid].status, jobs'[tid].status>> \in AllowedTransitions]_vars

\* C6: once the Job is COMPLETED or FAILED (and no attempt is in flight any
\* more) no operation changes its status and no stage handler of the run
\* starts executing.
C6_TerminalStatusIsFinal ==
    [][(JobExists /\ jobs[tid].status \in {COMPLETED, FAILED} /\ OthersQuiet({}))
          => /\ jobs'[tid].status = jobs[tid].status
             /\ \A e \in Executors : pc'[e] = "exec" => pc[e] = "exec"]_vars

\* C7: an error raised inside an execution attempt is caught once: the attempt
\* runs no further stage and does not retry, and its except branch sets the
\* Job to FAILED with error_message equal to the raised message.
C7_RaiseFailsTheJob ==
    [][\A e \in Executors :
          /\ err[e] # NoneStr => pc'[e] \in {"caught", "done"}
          /\ pc[e] = "caught" => (err[e] # NoneStr /\ pc'[e] \in {"caught", "done"})
          /\ pc[e] = "done" => pc'[e] = "done"
          /\ (pc[e] = "caught" /\ pc'[e] = "done") =>
                /\ jobs'[tid].status = FAILED
                /\ jobs'[tid].error_message = err[e]
          /\ (pc[e] = "exec" /\ err'[e] # NoneStr) => pc'[e] = "caught"]_vars

C7_Witness ==
    /\ pc[0] = "done"
    /\ \A e \in ResumeExecutors : pc[e] = "idle"
    /\ Status = FAILED
    /\ jobs[tid].error_message = RaiseMessage

\* C8: at most one execution of the run is inside a stage handler at a time.
C8_OneHandlerAtATime ==
    Cardinality({e \in Executors : pc[e] = "exec"}) <= 1

\* C9: an action-item id that is in the ledger stays in the ledger.
C9_LedgerIdsNeverShrink ==
    [][LedgerIds(Ledger) \subseteq LedgerIds(get_all_items(jobs', tid))]_vars

\* C10: no two entries of the ledger share an id.
C10_LedgerIdsUnique ==
    \A i, k \in DOMAIN Ledger : Ledger[i].id = Ledger[k].id => i = k

\* C11: an action item that is resolved stays in the ledger, resolved and
\* with the same resolved_at, whatever resolve call, append or resume
\* execution comes next.
C11_ResolvedStaysResolved ==
    [][\A i \in DOMAIN Ledger :
          Ledger[i].resolved =>
              \E k \in DOMAIN get_all_items(jobs', tid) :
                  get_all_items(jobs', tid)[k] = Ledger[i]]_vars

\* C12: whenever the Job is COMPLETED its ledger holds no unresolved BLOCKING
\* item, after a first execution and after resumes alike.
C12_CompletedHasNoBlocking ==
    Status = COMPLETED =>
        \A i \in DOMAIN Ledger :
            ~(Ledger[i].severity = BLOCKING /\ ~Ledger[i].resolved)

C12_Witness ==
    /\ Status = COMPLETED
    /\ cp.next = END
    /\ \A e \in Executors : pc[e] \in {"idle", "done"}

\* C13: a resume of an interrupted run (the latest checkpoint was written after
\* FIXER) loads exactly the latest checkpoint, which carries the corrections of
\* the latest resume request, and the first stage it executes is INPUT.
Interrupted(store) == store.seq > 0 /\ store.next = INPUT_NODE
LatestRequest(e) == \A d \in ResumeExecutors : d > e => pc[d] = "idle"
MergedIn(data, p) == deep_merge(data, BuildUpdates(p)) = data

C13_ResumeStartsAtInput ==
    [][\A e \in ResumeExecutors :
          /\ (pc[e] = "start" /\ pc'[e] # "start" /\ Interrupted(cp)) =>
                /\ pc'[e] = "ready"
                /\ loc'[e] = cp
                /\ loc'[e].next = INPUT_NODE
                /\ LatestRequest(e) => MergedIn(loc'[e].values.application_data, payload[e])
          /\ (pc[e] = "ready" /\ pc'[e] = "exec") => loc'[e] = loc[e]]_vars

C13_Witness ==
    \E e \in ResumeExecutors :
        /\ pc[e] = "exec"
        /\ lastRan[e] = NoneStr
        /\ loc[e].next = INPUT_NODE
        /\ loc[e].values.is_auth_valid
        /\ loc[e].values.status = NEEDS_REVIEW
        /\ loc[e].values.application_data # SubmittedApplication

\* C14: the sequence number of the stored checkpoint grows by exactly one with
\* every write and a stored checkpoint is never edited; a stage write at a
\* sequence number that is already used fails and leaves the store as it is,
\* so of two executions writing the same number exactly one succeeds.
StageWrite(e) == pc[e] = "exec" /\ pc'[e] # "exec" /\ err'[e] # RaiseMessage

C14_CheckpointSequence ==
    [][/\ cp' # cp => cp'.seq = cp.seq + 1
       /\ \A e \in Executors :
             StageWrite(e) =>
                 IF loc[e].seq + 1 <= cp.seq
                 THEN cp' = cp /\ err'[e] = ConflictMessage /\ pc'[e] = "caught"
                 ELSE cp'.seq = loc[e].seq + 1 /\ err'[e] = NoneStr]_vars

C14_Witness ==
    \E e, d \in Executors :
        /\ e # d
        /\ err[e] = ConflictMessage
        /\ pc[e] = "caught"
        /\ lastRan[d] # NoneStr
        /\ loc[d].seq = cp.seq

\* C15: the action-items list of a run has every BLOCKING item before every
\* WARNING item and items of equal severity in creation order, with and
\* without the resolved items.
C15_ListOrdered ==
    \A include_resolved \in BOOLEAN :
        LET listed == get_action_items(jobs, tid, include_resolved)
        IN \A i, k \in DOMAIN listed : i < k => ~SortKeyLess(listed[k], listed[i])

\* C16: a resolve call that follows the writes before it stamps every item it
\* names, and naming items that are resolved already changes nothing: a second
\* resolve(x) leaves the ledger, resolved_at of x included, as the first left it.
ResolveWrites == cli.pc = "resolve_w" /\ cli'.pc = "idle" /\ cli.snap = Ledger

C16_ResolveIdempotent ==
    [][ResolveWrites =>
          LET after == get_all_items(jobs', tid)
          IN /\ \A i \in DOMAIN after : after[i].id \in cli.ids => after[i].resolved
             /\ (\A i \in DOMAIN Ledger : Ledger[i].id \in cli.ids => Ledger[i].resolved)
                    => after = Ledger]_vars

C16_Witness ==
    /\ cli.pc = "idle"
    /\ clock = 2
    /\ \E i \in DOMAIN Ledger :
          /\ Ledger[i].id \in cli.ids
          /\ Ledger[i].resolved
          /\ Ledger[i].resolved_at = 1

\* C17: a resolve for a thread without a Job returns and changes nothing; a
\* resolve call leaves every item it does not name, or that is resolved
\* already, as it is and in its place, and changes only resolved and
\* resolved_at of the others.
ResolveWithoutJob ==
    cli.pc = "idle" /\ cli'.pc = "idle" /\ calls' = calls + 1 /\ pc' = pc

C17_UnknownIdsNoOp ==
    [][/\ ResolveWithoutJob => (jobs' = jobs /\ cp' = cp)
       /\ ResolveWrites =>
             LET after == get_all_items(jobs', tid)
             IN /\ Len(after) = Len(Ledger)
                /\ \A i \in DOMAIN Ledger :
                      /\ after[i].id = Ledger[i].id
                      /\ after[i].severity = Ledger[i].severity
                      /\ (Ledger[i].id \notin cli.ids \/ Ledger[i].resolved)
                            => after[i] = Ledger[i]]_vars

C17_Witness ==
    /\ cli.pc = "idle"
    /\ clock = 1
    /\ \E id \in cli.ids : id \notin LedgerIds(Ledger)
    /\ \E i \in DOMAIN Ledger : Ledger[i].id \in cli.ids /\ Ledger[i].resolved

\* C18: the resume merge keeps every field of the stored application data
\* that the updates do not mention, at any depth.
RECURSIVE Kept(_, _, _)
Kept(b, u, r) ==
    \A key \in DOMAIN b :
        /\ key \in DOMAIN r
        /\ IF key \notin DOMAIN u THEN r[key] = b[key]
           ELSE IsDict(b[key]) =>
                   /\ IsDict(r[key])
                   /\ Kept(b[key].v, IF IsDict(u[key]) THEN u[key].v ELSE <<>>, r[key].v)

Merges == pc[1] = "idle" /\ pc'[1] = "start"

C18_MergeKeepsUnmentioned ==
    [][Merges => Kept(cp.values.application_data, BuildUpdates(payload'[1]),
                      cp'.values.application_data)]_vars

C18_Witness ==
    /\ pc[1] = "start"
    /\ payload[1].business_details = Dict([pan |-> Str("pan1"), website_url |-> NoneVal])
    /\ payload[1].documents_path = NoneVal
    /\ cp.values.application_data.business_details
          = Dict([pan |-> Str("pan1"), website_url |-> Str("url0")])
    /\ cp.values.application_data.documents_path = Str("doc0")

\* C19: a correction that is None or empty, at top level or inside a nested
\* details object, leaves the stored value of its field as it was.
Blank(x) == x = NoneVal \/ x = Str("")

C19_BlankCorrectionIgnored ==
    [][Merges =>
          LET p == payload'[1]
              b == cp.values.application_data
              r == cp'.values.application_data
          IN \A key \in DOMAIN p :
                /\ Blank(p[key]) => r[key] = b[key]
                /\ IsDict(p[key]) =>
                      \A j \in DOMAIN p[key].v :
                          Blank(p[key].v[j]) => r[key].v[j] = b[key].v[j]]_vars

\* C20: a stage handler leaves the application data as its execution loaded
\* it, in its own state and in the checkpoint it writes, and the merge of a
\* resume request changes no other field of the run state.
C20_ApplicationDataFrame ==
    [][/\ \A e \in Executors :
             StageWrite(e) =>
                 /\ loc'[e].values.application_data = loc[e].values.application_data
                 /\ cp' # cp =>
                       cp'.values.application_data = loc[e].values.application_data
       /\ \A e \in ResumeExecutors :
             (pc[e] = "idle" /\ pc'[e] = "start") =>
                 /\ \A f \in DOMAIN cp.values \ {"application_data"} :
                       cp'.values[f] = cp.values[f]
                 /\ cp'.next = cp.next
                 /\ get_all_items(jobs', tid) = Ledger]_vars

C20_Witness ==
    \E e \in ResumeExecutors :
        /\ lastRan[e] = INPUT_NODE
        /\ loc[e].values.application_data # SubmittedApplication
        /\ cp = loc[e]

\* ---------------------------------------------------------------- C21
\* start_onboarding returns ACCEPTED after create_job and add_task
SubmitReturns == ~JobExists /\ JobExists'
\* resume_onboarding returns ACCEPTED after add_task(resume_workflow)
ResumeReturns(e) == pc[e] = "idle" /\ pc'[e] = "start"
\* the task of executor e is scheduled and has run no stage handler
NothingRan(e) ==
    pc'[e] = "start" /\ lastRan'[e] = NoneStr /\ loc'[e] = NoCheckpoint /\ err'[e] = NoneStr

\* C21: when submit returns ACCEPTED the Job exists with status QUEUED and no
\* stage handler of the run has executed (no checkpoint, the task only
\* scheduled); a resume of a checkpointed run is answered ACCEPTED with its
\* task only scheduled, whatever the outcomes recorded in the checkpoint.
C21_AcceptedBeforeAnyStage ==
    [][ /\ SubmitReturns =>
              /\ Status' = QUEUED
              /\ cp' = NoCheckpoint
              /\ NothingRan(0)
              /\ \A e \in ResumeExecutors : pc'[e] = "idle"
        /\ (calls' = calls + 1 /\ cp.seq > 0) =>
              \E e \in ResumeExecutors : ResumeReturns(e) /\ NothingRan(e)
      ]_vars

C21_Witness ==
    /\ pc[0] = "start"
    /\ Status = QUEUED
    /\ cp = NoCheckpoint

\* ---------------------------------------------------------------- C22
InFlight == JobExists /\ Status \in {QUEUED, PROCESSING}
Settled == JobExists /\ Status \in {NEEDS_REVIEW, COMPLETED, FAILED}

\* C22: under fair scheduling of the background tasks, a Job that is QUEUED
\* or PROCESSING (after the submit and after every accepted resume, which
\* writes PROCESSING) eventually reaches NEEDS_REVIEW, COMPLETED or FAILED.
C22_JobEventuallySettles == InFlight ~> Settled

\* a resumed attempt has finished and left the Job settled
C22_Witness ==
    /\ \E e \in ResumeExecutors : pc[e] = "done"
    /\ pc[0] = "done"
    /\ Settled

\* ---------------------------------------------------------------- C23
\* GET /onboard/{id}/action-items: the items of get_action_items, the count of
\* pending (unresolved BLOCKING and WARNING) items, and resume_hint only when
\* something is pending
ActionItemsResponse(js, t, include_resolved) ==
    LET action_items == get_action_items(js, t, include_resolved)
        pending == SelectSeq(action_items,
                       LAMBDA i : i.severity \in {BLOCKING, WARNING} /\ ~i.resolved)
        response == [thread_id |-> t, action_items |-> action_items,
                     total_pending |-> Len(pending)]
    IN IF pending # <<>>
       THEN [thread_id |-> t, action_items |-> action_items,
             total_pending |-> Len(pending),
             resume_hint |-> "Send any updated fields"]
       ELSE response

\* C23: whenever the Job is NEEDS_REVIEW its ledger holds every action item
\* of the run's latest checkpoint, at least one item is unresolved, and the
\* action-items response carries resume_hint.
C23_NeedsReviewHasItems ==
    Status = NEEDS_REVIEW =>
        /\ \E k \in DOMAIN Ledger : ~Ledger[k].resolved
        /\ "resume_hint" \in DOMAIN ActionItemsResponse(jobs, tid, FALSE)

\* ---------------------------------------------------------------- C24
\* the attempt of executor e ended at the terminal stage with its four gates
\* passed (every attempt starts at INPUT and a gate writes its flag each time)
AllGatesPassed(e) ==
    /\ lastRan[e] = FINAL_NODE
    /\ loc[e].next = END
    /\ AllFlags(loc[e].values)

\* C24: when the four gates pass on an execution attempt (no other attempt
\* being in flight), its closing update leaves the Job COMPLETED at stage
\* FINAL with an empty ledger, and the finalizer does not change risk_score.
C24_AllPassCompletes ==
    [][\A e \in Executors :
          /\ (Finishing(e) /\ OthersQuiet({e}) /\ AllGatesPassed(e)) =>
                /\ jobs'[tid].status = COMPLETED
                /\ jobs'[tid].stage = "FINAL"
                /\ jobs'[tid].action_items = <<>>
          /\ (StageWrite(e) /\ loc[e].next = FINAL_NODE /\ lastRan'[e] = FINAL_NODE) =>
                loc'[e].values.risk_score = loc[e].values.risk_score]_vars

\* ---------------------------------------------------------------- C25
\* the handler of a gated stage returns in this step with its flag false
GateFails(e) ==
    /\ StageWrite(e)
    /\ loc[e].next \in GatedNodes
    /\ lastRan'[e] = loc[e].next
    /\ ~loc'[e].values[FlagOf(loc[e].next)]

\* C25: whenever a gated stage returns its outcome flag false, the result
\* of that stage holds at least one action item, and its items are new ones
\* (ids issued by this stage execution).
C25_FalseFlagHasItem ==
    [][\A e \in Executors :
          GateFails(e) =>
              /\ loc'[e].values.action_items # <<>>
              /\ \A k \in DOMAIN loc'[e].values.action_items :
                     loc'[e].values.action_items[k].id >= nextId]_vars

\* ---------------------------------------------------------------- C30
IsPrefix(a, b) == Len(a) <= Len(b) /\ SubSeq(b, 1, Len(a)) = a
\* verification_notes channel of the run's latest checkpoint
Notes(store) == store.values.verification_notes

\* C30: the run's verification notes only grow: over every step (a stage
\* execution, a resume) the notes held before are a prefix of the notes
\* held after.
C30_NotesOnlyGrow ==
    [][IsPrefix(Notes(cp), Notes(cp'))]_vars

\* ---------------------------------------------------------------- C26
\* a tool call made by the stage came back with success false
ToolCallFailed ==
    \E k \in DOMAIN call.out.tool_results : ~call.out.tool_results[k].success

\* C26: when a tool call made by a gated stage returns success false, the
\* stage returns normally (nothing is raised, so the Job is not FAILED) with
\* its outcome flag false: the gate does not pass on a failed tool call.
C26_FailedToolFailsGate ==
    (call.phase = "stage" /\ ToolCallFailed) =>
        /\ ~call.out.raised
        /\ ~call.out.flag

\* ---------------------------------------------------------------- C27
\* C27: a tool call with an unregistered name, or with a name outside the
\* allow-list of the calling stage, returns a ToolResult with success false
\* and an error text, raises nothing and invokes no tool implementation; an
\* exception raised inside an implementation comes back as success false
\* with its message.
C27_BadToolCallIsFailure ==
    call.phase = "tool" =>
        /\ (call.tool_name \notin RegisteredTools
               \/ call.tool_name \notin available_tools(call.node)) =>
              /\ ~call.out.raised
              /\ ~call.out.result.success
              /\ call.out.result.error # NoneStr
              /\ ~call.out.invoked
        /\ (call.out.invoked /\ call.behaviour = "raises") =>
              /\ ~call.out.raised
              /\ ~call.out.result.success
              /\ call.out.result.error = TimeoutMessage

\* the implementation of an allowed, registered tool raises
C27_Witness ==
    /\ call.phase = "tool"
    /\ call.tool_name \in available_tools(call.node)
    /\ call.out.invoked
    /\ call.behaviour = "raises"
    /\ ~call.out.result.success

\* ---------------------------------------------------------------- C28
InLoop == call.phase \in {"attempt", "sleep"}
LoopOver == call.phase \in {"returned", "raised"}

\* what holds of the loop after each attempt
RetryRules ==
    (InLoop \/ LoopOver) =>
        /\ call.attempts <= call.max_retries + 1
        /\ call.attempts = call.attempt + (IF call.phase = "attempt" THEN 0 ELSE 1)
        /\ call.outcome = "ok" => call.phase = "returned"
        /\ call.phase = "returned" => call.outcome = "ok"
        /\ (call.outcome \in OtherMessages) =>
              call.phase = "raised" /\ call.last_exception = call.outcome
        /\ (call.outcome \in RateLimitMessages /\ call.attempts = call.max_retries + 1) =>
              call.phase = "raised" /\ call.last_exception = call.outcome
        /\ call.phase = "sleep" =>
              call.outcome \in RateLimitMessages /\ call.attempts <= call.max_retries

\* C28: a retried call is attempted at most max_retries+1 times; a success
\* returns at once, the rate-limit failure of attempt max_retries+1 is
\* re-raised, an error that is not a rate-limit error is re-raised after the
\* attempt that produced it; and the loop always ends.
C28_RetryBounded == []RetryRules /\ (InLoop ~> LoopOver)

\* every attempt was rate limited and the last failure was re-raised
C28_Witness ==
    /\ call.phase = "raised"
    /\ call.max_retries >= 1
    /\ call.attempts = call.max_retries + 1
    /\ call.last_exception \in RateLimitMessages

\* ---------------------------------------------------------------- C29
\* the retries of the enrichment call ended with a rate-limit error
Exhausted ==
    /\ call.phase = "raised"
    /\ is_rate_limit_error(call.last_exception)
    /\ call.attempts = call.max_retries + 1

\* C29: when the enrichment call of FIXER still fails with a rate-limit
\* error after the retries are exhausted, the execution attempt aborts (the
\* handler does not return a result) and the closing update leaves the Job
\* FAILED with the message of that error.
C29_ExhaustedRetriesFailJob ==
    [][Exhausted =>
          /\ (pc[0] = "exec" /\ pc'[0] # "exec") =>
                pc'[0] = "caught" /\ err'[0] = call.last_exception
          /\ Finishing(0) =>
                /\ jobs'[tid].status = FAILED
                /\ jobs'[tid].error_message = call.last_exception]_vars

\* ---------------------------------------------------------------- C31
\* C31: every operation on one run (submit, stage execution, resume,
\* append_action_items, mark_items_resolved, update_job) leaves the Job
\* record, the ledger and the checkpoint of every other run unchanged, and
\* creates or deletes no Job of another run.
C31_OtherRunsUntouched ==
    [][/\ \A t \in DOMAIN jobs \ {tid} : t \in DOMAIN jobs' /\ jobs'[t] = jobs[t]
       /\ DOMAIN jobs' \subseteq DOMAIN jobs \cup {tid}
       /\ \A t \in Threads \ {tid} : checkpoints'[t] = checkpoints[t]]_vars

\* the run tid has checkpoints and a resolved item with the id of the
\* unresolved item of the other run
C31_Witness ==
    /\ JobExists
    /\ cp.seq > PausedSeq(INPUT_NODE)
    /\ \E k \in DOMAIN Ledger : Ledger[k].id = 1 /\ Ledger[k].resolved
    /\ \E k \in DOMAIN jobs[OtherRun].action_items :
          /\ jobs[OtherRun].action_items[k].id = 1
          /\ ~jobs[OtherRun].action_items[k].resolved

StageOf(node) ==
    CASE node = INPUT_NODE -> "INPUT"
      [] node = DOCS_NODE -> "DOCS"
      [] node = BANK_NODE -> "BANK"
      [] node = WEB_NODE -> "COMPLIANCE"

\* the gated stages that ran in a first execution and whose check failed
FailedGates(values) ==
    LET ran(node) ==
            CASE node = INPUT_NODE -> TRUE
              [] node = DOCS_NODE -> values.is_auth_valid
              [] node = BANK_NODE -> values.is_auth_valid
              [] node = WEB_NODE -> values.is_auth_valid /\ values.is_bank_verified
    IN {node \in GatedNodes : ran(node) /\ ~values[FlagOf(node)]}

\* C33: when the first execution of a run leaves the Job NEEDS_REVIEW, the
\* stage of the Job names a gated stage whose check failed (INPUT, DOCS, BANK
\* or COMPLIANCE).
C33_StageNamesFailedGate ==
    [][(Finishing(0) /\ jobs'[tid].status = NEEDS_REVIEW) =>
          jobs'[tid].stage \in {StageOf(node) : node \in FailedGates(loc[0].values)}]_vars

\* ------------------------------------------- helper functions, one call each
\* largest value of the loop variable "attempt" a delay is computed for
MaxAttempt == 6

\* base_delay and max_delay a retry loop is configured with, in milliseconds
\* (the defaults and one smaller value each)
BaseDelays == {1000, BaseDelayMs}
MaxDelays == {30000, MaxDelayMs}

\* retry_with_backoff.wrapper with exponential_base 2 and jitter, and
\* RetryingLLM._calculate_delay: the delay is capped and then jittered
retry_delay(base_delay, max_delay, attempt, percent) ==
    LET delay == IF base_delay * Pow2(attempt) < max_delay
                 THEN base_delay * Pow2(attempt) ELSE max_delay
    IN (delay * percent) \div 100

\* a retry loop computes the wait before its next attempt
Backoff ==
    /\ call.phase = "idle"
    /\ \E base_delay \in BaseDelays, max_delay \in MaxDelays,
          attempt \in 0..MaxAttempt, percent \in JitterPercent :
          call' = [phase |-> "backoff", base_delay |-> base_delay,
                   max_delay |-> max_delay, attempt |-> attempt, percent |-> percent,
                   delay |-> retry_delay(base_delay, max_delay, attempt, percent)]
    /\ UNCHANGED <<jobs, checkpoints, pc, loc, lastRan, err, snap, toAdd, nextId, cli, calls,
                   clock, payload>>

\* ------------------------------------------------- simulation configuration
\* scenarios of SimulationConfig.ALL_SCENARIOS that doc_intelligence_node asks for
Scenarios == {"force_success_all", "force_success_doc", "doc_blurry", "doc_missing"}

\* SimulationConfig.ENV_MAP
ENV_MAP ==
    [s \in Scenarios |->
        CASE s = "force_success_all" -> "SIMULATE_FORCE_SUCCESS_ALL"
          [] s = "force_success_doc" -> "SIMULATE_FORCE_SUCCESS_DOC"
          [] s = "doc_blurry" -> "SIMULATE_DOC_BLURRY"
          [] s = "doc_missing" -> "SIMULATE_DOC_MISSING"]

\* the process environment and the module's _runtime_flags: ENVIRONMENT
\* (NoneStr when unset), the SIMULATE_* variables set to "true", and the
\* flags set at runtime
SimSettings ==
    LET Vars == {ENV_MAP[s] : s \in Scenarios}
                    \cup {"SIMULATE_REAL_CHECKS", "SIMULATE_DOC_FAILURE"}
        Flags == UNION {[set -> BOOLEAN] : set \in SUBSET Scenarios}
    IN [ENVIRONMENT : {NoneStr, "development", "production", "staging"},
        environ : SUBSET Vars, runtime_flags : Flags]

\* SimulationConfig.is_dev_mode: ENVIRONMENT defaults to "development"
is_dev_mode(s) == s.ENVIRONMENT \in {NoneStr, "development"}

\* SimulationConfig.is_prod_mode
is_prod_mode(s) == s.ENVIRONMENT = "production"

\* SimulationConfig._get_env_flag: the variable is set to "true"
get_env_flag(s, key) == key \in s.environ

\* SimulationConfig.should_fail (and _check_flag, which has the same body)
should_fail(s, scenario) ==
    IF ~is_dev_mode(s) THEN FALSE
    ELSE IF scenario \in DOMAIN s.runtime_flags THEN s.runtime_flags[scenario]
    ELSE get_env_flag(s, ENV_MAP[scenario])

\* SimulationConfig.should_skip("doc")
should_skip(s) ==
    IF ~is_dev_mode(s) THEN FALSE
    ELSE IF should_fail(s, "force_success_all") THEN TRUE
    ELSE IF should_fail(s, "force_success_doc") THEN TRUE
    ELSE IF get_env_flag(s, "SIMULATE_REAL_CHECKS") THEN FALSE
    ELSE IF \E failure \in {"doc_blurry", "doc_missing"} : should_fail(s, failure)
    THEN FALSE
    ELSE TRUE

\* SimulationConfig.should_fail_doc
should_fail_doc(s) ==
    get_env_flag(s, "SIMULATE_DOC_FAILURE") \/ should_fail(s, "doc_blurry")

\* which branch doc_intelligence_node takes before it looks at the document
doc_simulation(s) ==
    IF should_skip(s) THEN "skipped"
    ELSE IF should_fail(s, "doc_blurry") \/ should_fail_doc(s) THEN "doc_blurry"
    ELSE IF should_fail(s, "doc_missing") THEN "doc_missing"
    ELSE "real"

\* doc_intelligence_node asks the simulation configuration
Simulate ==
    /\ call.phase = "idle"
    /\ \E s \in SimSettings :
          call' = [phase |-> "sim", settings |-> s,
                   should_skip |-> should_skip(s),
                   should_fail |-> [sc \in Scenarios |-> should_fail(s, sc)],
                   should_fail_doc |-> should_fail_doc(s),
                   branch |-> doc_simulation(s)]
    /\ UNCHANGED <<jobs, checkpoints, pc, loc, lastRan, err, snap, toAdd, nextId, cli, calls,
                   clock, payload>>

\* ----------------------------------------- registry call with any tool setup
\* Optional[bool] argument use_mock: None, True or False
OptionalBool == {NoneStr, "True", "False"}

\* how a name is registered: in _tools (with its implementation) or not, with
\* or without an entry in _mock_implementations, and with mock_output None,
\* an empty dict or a payload
ToolSetups ==
    [registered : BOOLEAN, mock_implementation : BOOLEAN,
     mock_output : {NoneStr, "{}", "mock payload"}]

\* a ToolResult with its was_mocked field, and which callable was invoked
RegistryOutcome(result, was_mocked, invoked) ==
    [result |-> result, was_mocked |-> was_mocked, invoked |-> invoked]

\* a registry call that looks at the global mock mode only
registry_call_GlobalOnly(tool, name, use_mocks, use_mock, behaviour, mock_behaviour) ==
    LET real == IF behaviour = "raises"
                THEN RegistryOutcome(ToolResult(name, FALSE, NoneStr, TimeoutMessage),
                                     use_mocks, "real")
                ELSE RegistryOutcome(ToolResult(name, TRUE, behaviour, NoneStr),
                                     FALSE, "real")
    IN IF ~tool.registered
       THEN RegistryOutcome(ToolResult(name, FALSE, NoneStr, "Tool not found in registry"),
                            FALSE, "none")
       ELSE IF ~use_mocks THEN real
       ELSE IF tool.mock_implementation
       THEN IF mock_behaviour = "raises"
            THEN RegistryOutcome(ToolResult(name, FALSE, NoneStr, TimeoutMessage),
                                 TRUE, "mock")
            ELSE RegistryOutcome(ToolResult(name, TRUE, mock_behaviour, NoneStr),
                                 TRUE, "mock")
       ELSE IF tool.mock_output \notin {NoneStr, "{}"}
       THEN RegistryOutcome(ToolResult(name, TRUE, tool.mock_output, NoneStr), TRUE, "none")
       ELSE RegistryOutcome(ToolResult(name, FALSE, NoneStr, "No mock implementation"),
                            FALSE, "none")

\* ToolRegistry.call and call_async (name, inputs, use_mock) with the
\* registry's _use_mocks; the implementation and the mock implementation
\* return behaviour and mock_behaviour as data, or raise
registry_call(tool, name, use_mocks, use_mock, behaviour, mock_behaviour) ==
    LET should_mock == IF use_mock # NoneStr THEN use_mock = "True" ELSE use_mocks
    IN IF ~tool.registered
       THEN RegistryOutcome(ToolResult(name, FALSE, NoneStr, "Tool not found in registry"),
                            FALSE, "none")
       ELSE IF should_mock
       THEN IF tool.mock_implementation
            THEN IF mock_behaviour = "raises"
                 THEN RegistryOutcome(ToolResult(name, FALSE, NoneStr, TimeoutMessage),
                                      should_mock, "mock")
                 ELSE RegistryOutcome(ToolResult(name, TRUE, mock_behaviour, NoneStr),
                                      TRUE, "mock")
            ELSE IF tool.mock_output \notin {NoneStr, "{}"}
            THEN RegistryOutcome(ToolResult(name, TRUE, tool.mock_output, NoneStr),
                                 TRUE, "none")
            ELSE RegistryOutcome(ToolResult(name, FALSE, NoneStr, "No mock implementation"),
                                 FALSE, "none")
       ELSE IF behaviour = "raises"
       THEN RegistryOutcome(ToolResult(name, FALSE, NoneStr, TimeoutMessage),
                            should_mock, "real")
       ELSE RegistryOutcome(ToolResult(name, TRUE, behaviour, NoneStr), FALSE, "real")

\* tool_registry.call(name, inputs, use_mock) on some registry
CallRegistry ==
    /\ call.phase = "idle"
    /\ \E tool \in ToolSetups, use_mocks \in BOOLEAN, use_mock \in OptionalBool,
          behaviour \in Behaviours, mock_behaviour \in Behaviours :
          call' = [phase |-> "registry", tool |-> tool, use_mocks |-> use_mocks,
                   use_mock |-> use_mock, behaviour |-> behaviour,
                   mock_behaviour |-> mock_behaviour,
                   out |-> registry_call(tool, "validate_pan", use_mocks, use_mock,
                                         behaviour, mock_behaviour)]
    /\ UNCHANGED <<jobs, checkpoints, pc, loc, lastRan, err, snap, toAdd, nextId, cli, calls,
                   clock, payload>>

\* ------------------------------------------- deep_merge on Python objects
\* Python dicts are objects: the heap is the sequence of the dicts allocated
\* so far, a dict-valued entry holds a reference to its object
Ref(o) == [k |-> "ref", v |-> o]
IsRef(x) == x.k = "ref"

\* d[key] = val
Put(d, key, val) == [j \in (DOMAIN d) \cup {key} |-> IF j = key THEN val ELSE d[j]]

\* the dict literal d (nested dicts as Dict values) built on heap h
RECURSIVE store(_, _)
store(h, d) ==
    LET RECURSIVE fill(_, _, _)
        fill(hp, content, keys) ==
            IF keys = {} THEN [heap |-> hp, content |-> content]
            ELSE LET key == CHOOSE j \in keys : TRUE
                 IN IF IsDict(d[key])
                    THEN LET s == store(hp, d[key].v)
                         IN fill(s.heap, Put(content, key, Ref(s.ref)), keys \ {key})
                    ELSE fill(hp, Put(content, key, d[key]), keys \ {key})
        f == fill(h, <<>>, DOMAIN d)
    IN [heap |-> Append(f.heap, f.content), ref |-> Len(f.heap) + 1]

\* the value an entry x denotes on heap h
RECURSIVE Val(_, _)
Val(h, x) ==
    IF IsRef(x) THEN Dict([key \in DOMAIN h[x.v] |-> Val(h, h[x.v][key])]) ELSE x

\* a merge that writes into base instead of a copy of it
RECURSIVE deep_merge_InPlace(_, _, _)
deep_merge_InPlace(h, base, updates) ==
    LET result == base
        RECURSIVE loop(_, _)
        loop(hp, keys) ==
            IF keys = {} THEN hp
            ELSE LET key == CHOOSE j \in keys : TRUE
                     value == hp[updates][key]
                 IN IF /\ key \in DOMAIN hp[result]
                       /\ IsRef(hp[result][key])
                       /\ IsRef(value)
                    THEN LET m == deep_merge_InPlace(hp, hp[result][key].v, value.v)
                         IN loop([m.heap EXCEPT ![result] = Put(@, key, Ref(m.ref))],
                                 keys \ {key})
                    ELSE IF value.k # "none"
                    THEN loop([hp EXCEPT ![result] = Put(@, key, value)], keys \ {key})
                    ELSE loop(hp, keys \ {key})
    IN [heap |-> loop(h, DOMAIN h[updates]), ref |-> result]

\* deep_merge(base, updates) on the objects base and updates of heap h:
\* result = base.copy() is a new object that shares the entries of base; the
\* loop assigns into result only; returns the heap and the result object
RECURSIVE deep_merge_objects(_, _, _)
deep_merge_objects(h, base, updates) ==
    LET copied == Append(h, h[base])
        result == Len(copied)
        RECURSIVE loop(_, _)
        loop(hp, keys) ==
            IF keys = {} THEN hp
            ELSE LET key == CHOOSE j \in keys : TRUE
                     value == hp[updates][key]
                 IN IF /\ key \in DOMAIN hp[result]
                       /\ IsRef(hp[result][key])
                       /\ IsRef(value)
                    THEN LET m == deep_merge_objects(hp, hp[result][key].v, value.v)
                         IN loop([m.heap EXCEPT ![result] = Put(@, key, Ref(m.ref))],
                                 keys \ {key})
                    ELSE IF value.k # "none"
                    THEN loop([hp EXCEPT ![result] = Put(@, key, value)], keys \ {key})
                    ELSE loop(hp, keys \ {key})
    IN [heap |-> loop(copied, DOMAIN h[updates]), ref |-> result]

\* the base dicts: checkpointed application data, one with a string where the
\* updates may carry a dict, and one without the nested dicts
MergeBases ==
    StoredData
        \cup {[documents_path |-> Str("doc0"), business_details |-> Str("none given")],
              [documents_path |-> NoneVal]}

\* the updates dicts: what resume_onboarding builds from a payload, and
\* dicts that carry None values
MergeUpdates ==
    {BuildUpdates(p) : p \in AllPayloads}
        \cup {[key \in DOMAIN p |-> IF IsDict(p[key]) THEN Dict(p[key].v) ELSE p[key]] :
                 p \in AllPayloads}

\* merged = deep_merge(base, updates) and then deep_merge(merged, updates),
\* with what base, updates and merged hold afterwards
DeepMergeTwice ==
    /\ call.phase = "idle"
    /\ \E b \in MergeBases, u \in MergeUpdates :
          LET sb == store(<<>>, b)
              su == store(sb.heap, u)
              m1 == deep_merge_objects(su.heap, sb.ref, su.ref)
              m2 == deep_merge_objects(m1.heap, m1.ref, su.ref)
          IN call' = [phase |-> "merge", base |-> b, updates |-> u,
                      once |-> Val(m1.heap, Ref(m1.ref)).v,
                      twice |-> Val(m2.heap, Ref(m2.ref)).v,
                      base_after |-> Val(m1.heap, Ref(sb.ref)).v,
                      updates_after |-> Val(m1.heap, Ref(su.ref)).v,
                      once_after |-> Val(m2.heap, Ref(m1.ref)).v]
    /\ UNCHANGED <<jobs, checkpoints, pc, loc, lastRan, err, snap, toAdd, nextId, cli, calls,
                   clock, payload>>

\* the caller has taken the value
UtilDone ==
    /\ call.phase \in {"backoff", "sim", "registry", "merge"}
    /\ call' = NoCall
    /\ UNCHANGED <<jobs, checkpoints, pc, loc, lastRan, err, snap, toAdd, nextId, cli, calls,
                   clock, payload>>

UtilNext == Backoff \/ Simulate \/ CallRegistry \/ DeepMergeTwice \/ UtilDone

UtilSpec == Init /\ [][UtilNext]_vars

\* ---------------------------------------------------------------- C34
\* C34: the wait between two consecutive retry attempts never exceeds
\* max_delay, for every attempt number and every jitter value.
C34_DelayWithinMax ==
    call.phase = "backoff" => call.delay <= call.max_delay

\* ---------------------------------------------------------------- C35
\* C35: in production mode no stage applies a simulated skip or a simulated
\* failure: should_skip, should_fail and should_fail_doc return false for
\* every scenario, whatever the runtime flags and SIMULATE_* variables are.
C35_NoSimulationInProduction ==
    (call.phase = "sim" /\ is_prod_mode(call.settings)) =>
        /\ ~call.should_skip
        /\ \A sc \in Scenarios : ~call.should_fail[sc]
        /\ ~call.should_fail_doc
        /\ call.branch = "real"

\* ---------------------------------------------------------------- C36
\* C36: when a registered tool is called with use_mock true, whatever the
\* registry's global mock mode, the real implementation is not invoked: the
\* result comes from the registered mock implementation (its data, or its
\* exception as a failure); without one it is the static mock payload;
\* without a payload the call returns success false.
C36_MockNeverCallsReal ==
    (call.phase = "registry" /\ call.tool.registered /\ call.use_mock = "True") =>
        /\ call.out.invoked # "real"
        /\ IF call.tool.mock_implementation
           THEN /\ call.out.invoked = "mock"
                /\ IF call.mock_behaviour = "raises"
                   THEN ~call.out.result.success
                   ELSE /\ call.out.result.success
                        /\ call.out.result.data = call.mock_behaviour
           ELSE /\ call.out.invoked = "none"
                /\ IF call.tool.mock_output \notin {NoneStr, "{}"}
                   THEN /\ call.out.result.success
                        /\ call.out.result.data = call.tool.mock_output
                   ELSE ~call.out.result.success

\* the global mock mode is off, the call asks for a mock and gets the static
\* payload although the implementation would have raised
C36_Witness ==
    /\ call.phase = "registry"
    /\ call.tool.registered
    /\ ~call.use_mocks
    /\ call.use_mock = "True"
    /\ ~call.tool.mock_implementation
    /\ call.behaviour = "raises"
    /\ call.out.result.success
    /\ call.out.result.data = "mock payload"
    /\ call.out.was_mocked

\* ---------------------------------------------------------------- C37
\* the columns of the Job of tid other than cols are the same after the step
SameExcept(cols) ==
    \A f \in DOMAIN jobs[tid] \ cols : jobs'[tid][f] = jobs[tid][f]

\* C37: update_job changes only the columns whose argument is supplied: the
\* update to PROCESSING changes the status alone, the update to FAILED the
\* status and the error message alone, and no update to PROCESSING,
\* NEEDS_REVIEW or COMPLETED clears an error_message stored on the Job.
C37_UpdateKeepsOtherColumns ==
    [][JobExists =>
          /\ JobExists'
          /\ (jobs'[tid].status = PROCESSING /\ jobs[tid].status # PROCESSING) =>
                SameExcept({"status"})
          /\ (jobs'[tid].status = FAILED /\ jobs[tid].status # FAILED) =>
                SameExcept({"status", "error_message"})
          /\ (/\ jobs[tid].error_message # NoneStr
              /\ jobs'[tid].status \in {PROCESSING, NEEDS_REVIEW, COMPLETED}) =>
                jobs'[tid].error_message # NoneStr]_vars

\* a Job that failed with a message was resumed and is PROCESSING, the
\* message still on it
C37_Witness ==
    /\ JobExists
    /\ jobs[tid].status = PROCESSING
    /\ jobs[tid].error_message # NoneStr
    /\ \E e \in ResumeExecutors : pc[e] # "idle"

\* ---------------------------------------------------------------- C38
\* C38: deep_merge is idempotent and pure: merging the same updates into the
\* merged dict again gives the merged dict, and a call leaves its base dict
\* (and its updates dict) as it was.
C38_DeepMergeIdempotentPure ==
    call.phase = "merge" =>
        /\ call.twice = call.once
        /\ call.base_after = call.base
        /\ call.updates_after = call.updates
        /\ call.once_after = call.once

\* a correction of a nested field was merged into stored data: the result
\* differs from the base, which still holds the old value
C38_Witness ==
    /\ call.phase = "merge"
    /\ call.base \in StoredData
    /\ call.updates = [business_details |-> Dict([pan |-> Str("pan1")])]
    /\ call.once.business_details.v.pan = Str("pan1")
    /\ call.base_after.business_details.v.pan = Str("pan0")
    /\ call.twice = call.once

\* the object-level merge computes the value-level deep_merge
DeepMergeAgrees ==
    call.phase = "merge" => call.once = deep_merge(call.base, call.updates)

\* ---------------------------------------------------------------- C39
\* GET /onboard/{id}/action-items with its status code.  The value of
\* job_store.get_action_items is a list for every thread_id ([] when there is
\* no row), and the endpoint answers 404 only when that value is None.
get_action_items_endpoint(js, t, include_resolved) ==
    LET action_items == [k |-> "list", v |-> get_action_items(js, t, include_resolved)]
    IN IF action_items.k = "none"
       THEN [status_code |-> 404, detail |-> "Session not found"]
       ELSE [status_code |-> 200, detail |-> NoneStr,
             body |-> ActionItemsResponse(js, t, include_resolved)]

\* C39: requesting the action items of a run ID for which no Job exists
\* yields HTTP 404 'Session not found', not an empty item list with zero
\* counts.
C39_UnknownRunNotFound ==
    \A t \in {tid, OtherTid}, include_resolved \in BOOLEAN :
        t \notin DOMAIN jobs =>
            /\ get_action_items_endpoint(jobs, t, include_resolved).status_code = 404
            /\ get_action_items_endpoint(jobs, t, include_resolved).detail
                  = "Session not found"

====
